---- MODULE Spec2Model ----
(***************************************************************************)
(* A model of synth8: the SynthEngine of synth8/engine.py with its three   *)
(* execution contexts (the audio callback, the keyboard listener and the   *)
(* thread that calls the public API), the SynthVoice of synth8/voice.py,   *)
(* the SynthADSR of synth8/modulators.py and the oscillator and amplifier  *)
(* of synth8/nodes.py.                                                     *)
(*                                                                         *)
(* Numbers.  numpy floats are modelled as fixed-point integers: a level,   *)
(* gain or sample x is the integer x * Unit, and one oscillator cycle      *)
(* (2*pi radians) is Unit phase units.  Products and quotients truncate.   *)
(* Durations are kept in samples: the field attack of an envelope is the   *)
(* value int(self.attack * sr) of the code.                                *)
(***************************************************************************)
EXTENDS Integers, Sequences, FiniteSets, TLC

\* fixed-point 1.0
Unit == 2^15
\* the release threshold 0.001 of SynthADSR.render, in fixed point (floor)
Eps == Unit \div 1000
\* the block size the output stream asks the callback for (BLOCK_SIZE,
\* 512 in engine.py, scaled down)
BlockSize == 4

None == "None"
\* an optional array (a pending buffer, a signal): NoBuf is Python's None,
\* Some(b) the array b
NoBuf == <<>>
Some(b) == <<b>>

Min(a, b) == IF a < b THEN a ELSE b
Max(a, b) == IF a > b THEN a ELSE b
\* a clip that clips nothing
ClipNone(x, lo, hi) == x
\* np.clip(x, lo, hi)
Clip(x, lo, hi) == Min(Max(x, lo), hi)
\* np.zeros(n)
Zeros(n) == [k \in 1..n |-> 0]
\* a[:n]
Prefix(a, n) == [k \in 1..Min(n, Len(a)) |-> a[k]]
\* fixed-point product
Mul(a, b) == (a * b) \div Unit

(***************************************************************************)
(* SynthADSR (modulators.py).  An envelope object is a record; render is   *)
(* the while loop of the code, one pass per recursion.                     *)
(***************************************************************************)
NewADSR(attack, decay, sustain, release, targets) ==
    [kind |-> "adsr", attack |-> attack, decay |-> decay, sustain |-> sustain,
     release |-> release, env_phase |-> "off", env_level |-> 0,
     active |-> FALSE, targets |-> targets]

\* a trigger_on that leaves the active flag as it is
ADSR_trigger_on_inert(m) == [m EXCEPT !.env_phase = "attack", !.env_level = 0]

ADSR_trigger_on(m) ==
    [m EXCEPT !.env_phase = "attack", !.env_level = 0, !.active = TRUE]

\* a trigger_off without its test of the stage
ADSR_trigger_off_always(m) == [m EXCEPT !.env_phase = "release"]

ADSR_trigger_off(m) ==
    IF m.env_phase # "off" THEN [m EXCEPT !.env_phase = "release"] ELSE m

\* the level an attack pass stores: env[-1] of level + step * arange(n)
AttackLast(level, step, n) == Clip(level + step * (n - 1), 0, Unit)

\* the level a release pass stores: env[-1] of level - step * arange(n)
ReleaseLast(level, step, n) == Clip(level - step * (n - 1), 0, Unit)

\* One pass of the loop.  s = [m, level, i, out]: the object, the local
\* level, the loop index and the samples written so far (out[0:i]).
ADSR_pass(s, frames) ==
    LET m == s.m
        level == s.level
        remaining == frames - s.i
    IN  CASE m.env_phase = "attack" ->
               LET dur == Max(m.attack, 1)
                   step == Unit \div dur
                   n == Min(dur, remaining)
                   env == [k \in 1..n |-> Clip(level + step * (k - 1), 0, Unit)]
                   last == AttackLast(level, step, n)
               IN  [m |-> IF last >= Unit
                          THEN [m EXCEPT !.env_phase = "decay"] ELSE m,
                    level |-> IF last >= Unit THEN Unit ELSE last,
                    i |-> s.i + n, out |-> s.out \o env]
          [] m.env_phase = "decay" ->
               LET dur == Max(m.decay, 1)
                   step == (Unit - m.sustain) \div dur
                   n == Min(dur, remaining)
                   env == [k \in 1..n |->
                              Clip(level - step * (k - 1), m.sustain, Unit)]
                   last == env[n]
               IN  [m |-> IF last <= m.sustain
                          THEN [m EXCEPT !.env_phase = "sustain"] ELSE m,
                    level |-> IF last <= m.sustain THEN m.sustain ELSE last,
                    i |-> s.i + n, out |-> s.out \o env]
          [] m.env_phase = "sustain" ->
               [m |-> m, level |-> m.sustain, i |-> frames,
                out |-> s.out \o [k \in 1..remaining |-> m.sustain]]
          [] m.env_phase = "release" ->
               LET dur == Max(m.release, 1)
                   step == level \div dur
                   n == Min(dur, remaining)
                   env == [k \in 1..n |-> Clip(level - step * (k - 1), 0, Unit)]
                   last == ReleaseLast(level, step, n)
               IN  [m |-> IF last <= Eps
                          THEN [m EXCEPT !.env_phase = "off", !.active = FALSE]
                          ELSE m,
                    level |-> IF last <= Eps THEN 0 ELSE last,
                    i |-> s.i + n, out |-> s.out \o env]
          [] OTHER ->
               [m |-> m, level |-> level, i |-> frames,
                out |-> s.out \o Zeros(remaining)]

\* a render that makes one pass and returns
ADSR_loop_once(s, frames) ==
    IF s.i < frames THEN ADSR_pass(s, frames) ELSE s

RECURSIVE ADSR_loop(_, _)
ADSR_loop(s, frames) ==
    IF s.i < frames THEN ADSR_loop(ADSR_pass(s, frames), frames) ELSE s

\* render(frames): [m |-> the object afterwards, out |-> the block]
ADSR_render(m, frames) ==
    LET s == ADSR_loop([m |-> m, level |-> m.env_level, i |-> 0, out |-> <<>>],
                       frames)
    IN  [m |-> [s.m EXCEPT !.env_level = s.level], out |-> s.out]

(***************************************************************************)
(* Signal modules (nodes.py).  An oscillator keeps its phase, a VCA its    *)
(* pending gain buffer (NoBuf until a modulator pushed one).               *)
(***************************************************************************)
\* SynthOscillator(freq, waveform, sample_rate): phase 0, no pending buffer
NewOsc(base_freq, sample_rate, waveform) ==
    [kind |-> "osc", base_freq |-> base_freq, sample_rate |-> sample_rate,
     waveform |-> waveform, phase |-> 0, freq_mod |-> NoBuf]

NewVCA(gain) == [kind |-> "vca", base_gain |-> gain, gain_mod |-> NoBuf]

\* accept_modulation(param, buffer)
Node_accept_modulation(nd, param, buffer) ==
    CASE nd.kind = "osc" /\ param = "freq" -> [nd EXCEPT !.freq_mod = Some(buffer)]
      [] nd.kind = "vca" /\ param = "gain" -> [nd EXCEPT !.gain_mod = Some(buffer)]
      [] OTHER -> nd

\* 2*pi*clip(freq, 20, 20000)/sample_rate, in phase units
PhaseInc(freq, sample_rate) == (Clip(freq, 20, 20000) * Unit) \div sample_rate

RECURSIVE CumSum(_, _)
\* np.cumsum(a)[n-1]
CumSum(a, n) == IF n = 0 THEN 0 ELSE CumSum(a, n - 1) + a[n]

\* np.sin at phase q, 0 <= q < Unit, by Bhaskara's rational approximation
\* of the half wave: exact at 0, 1/12, 1/4, 5/12 and 1/2 of a cycle
HalfSine(x) ==
    LET h == Unit \div 2
    IN  (16 * x * (h - x)) \div ((5 * h * h - 4 * x * (h - x)) \div Unit)
Sin(q) == IF 2 * q < Unit THEN HalfSine(q) ELSE 0 - HalfSine(q - Unit \div 2)

\* the waveform at phase p (phase units, not wrapped)
Wave(waveform, p) ==
    LET q == p % Unit
    IN  CASE waveform = "saw" -> 2 * q - Unit
          [] waveform = "sine" -> Sin(q)
          [] waveform = "square" ->
               IF q = 0 \/ 2 * q = Unit THEN 0
               ELSE IF 2 * q < Unit THEN Unit ELSE 0 - Unit
          [] OTHER -> 0

\* a process that starts every block at phase 0
Osc_process_reset(nd, input, frames) ==
    LET inc == PhaseInc(nd.base_freq, nd.sample_rate)
    IN  [nd |-> [nd EXCEPT !.phase = 0],
         out |-> [k \in 1..frames |-> Wave(nd.waveform, k * inc)]]

\* SynthOscillator.process(input, frames): [nd, out, err]; the block is as
\* long as the frequency array: frames, or the pending buffer's [:frames]
Osc_process(nd, input, frames) ==
    LET inc == IF nd.freq_mod # NoBuf
               THEN [k \in 1..Min(frames, Len(nd.freq_mod[1])) |->
                        PhaseInc(nd.base_freq + nd.freq_mod[1][k] \div Unit,
                                 nd.sample_rate)]
               ELSE [k \in 1..frames |-> PhaseInc(nd.base_freq, nd.sample_rate)]
        phase_array == [k \in 1..Len(inc) |-> nd.phase + CumSum(inc, k)]
    IN  [nd |-> [nd EXCEPT !.phase = phase_array[Len(inc)] % Unit],
         out |-> [k \in 1..Len(inc) |-> Wave(nd.waveform, phase_array[k])],
         err |-> None]

\* input * gain of two numpy arrays: sample by sample when the lengths
\* agree, an array of length 1 is broadcast, any other pair of lengths
\* raises ValueError
VCA_times(nd, x, g) ==
    IF Len(g) = Len(x)
    THEN [nd |-> nd, out |-> [k \in 1..Len(x) |-> Mul(x[k], g[k])],
          err |-> None]
    ELSE IF Len(g) = 1
    THEN [nd |-> nd, out |-> [k \in 1..Len(x) |-> Mul(x[k], g[1])],
          err |-> None]
    ELSE IF Len(x) = 1
    THEN [nd |-> nd, out |-> [k \in 1..Len(g) |-> Mul(x[1], g[k])],
          err |-> None]
    ELSE [nd |-> nd, out |-> <<>>, err |-> "ValueError"]

\* SynthVCA.process(input, frames): [nd, out, err]
VCA_process(nd, input, frames) ==
    IF input = NoBuf THEN [nd |-> nd, out |-> Zeros(frames), err |-> None]
    ELSE IF nd.gain_mod # NoBuf
         THEN VCA_times(nd, input[1], Prefix(nd.gain_mod[1], frames))
         ELSE [nd |-> nd,
               out |-> [k \in 1..Len(input[1]) |->
                           Mul(input[1][k], nd.base_gain)],
               err |-> None]

Node_process(nd, input, frames) ==
    IF nd.kind = "osc" THEN Osc_process(nd, input, frames)
    ELSE VCA_process(nd, input, frames)

(***************************************************************************)
(* SynthLFO (modulators.py).  An LFO has no active flag and no triggers.   *)
(***************************************************************************)
NewLFO(freq, depth, waveform, sample_rate, targets) ==
    [kind |-> "lfo", freq |-> freq, depth |-> depth, waveform |-> waveform,
     sample_rate |-> sample_rate, phase |-> 0, targets |-> targets]

\* the waveform of SynthLFO.render at phase p
LFO_Wave(waveform, p) ==
    LET q == p % Unit
        saw == 2 * q - Unit
    IN  CASE waveform \in {"sine", "square", "saw"} -> Wave(waveform, p)
          [] waveform = "triangle" ->
               2 * (IF saw < 0 THEN 0 - saw ELSE saw) - Unit
          [] OTHER -> 0

\* SynthLFO.render(frames): [m, out]
LFO_render(m, frames) ==
    LET phase_inc == (m.freq * Unit) \div m.sample_rate
        phase_array == [k \in 1..frames |-> m.phase + (k - 1) * phase_inc]
    IN  [m |-> [m EXCEPT !.phase = (m.phase + frames * phase_inc) % Unit],
         out |-> [k \in 1..frames |->
                     Mul(m.depth, LFO_Wave(m.waveform, phase_array[k]))]]

\* mod.render(frames), by class
Mod_render(m, frames) ==
    IF m.kind = "adsr" THEN ADSR_render(m, frames) ELSE LFO_render(m, frames)

(***************************************************************************)
(* The objects of a patch.  nodes, mods and vobj are the heap: the signal  *)
(* modules, the modulation sources and the SynthVoice objects, by name.    *)
(***************************************************************************)
VARIABLES nodes, mods, vobj

Heap == [nodes |-> nodes, mods |-> mods, vobj |-> vobj]

\* SynthVoice(): modules and modulators are lists of object names
NewVoice(modules, modulators) ==
    [modules |-> modules, modulators |-> modulators,
     active |-> FALSE, gate_on |-> FALSE]

\* SynthModulator.trigger_on / trigger_off, by class
Mod_trigger_on(m) == IF m.kind = "adsr" THEN ADSR_trigger_on(m) ELSE m
Mod_trigger_off(m) == IF m.kind = "adsr" THEN ADSR_trigger_off(m) ELSE m

RECURSIVE TriggerAll(_, _, _)
\* for mod in self.modulators: mod.trigger_on() (on = TRUE) or trigger_off()
TriggerAll(ms, list, on) ==
    IF list = <<>> THEN ms
    ELSE LET x == Head(list)
         IN  TriggerAll([ms EXCEPT ![x] = IF on THEN Mod_trigger_on(ms[x])
                                          ELSE Mod_trigger_off(ms[x])],
                        Tail(list), on)

\* SynthVoice.trigger_on
Voice_trigger_on(H, v) ==
    [H EXCEPT !.mods = TriggerAll(H.mods, H.vobj[v].modulators, TRUE),
              !.vobj[v].gate_on = TRUE, !.vobj[v].active = TRUE]

\* a trigger_off that clears the active flag at once
Voice_trigger_off_clear(H, v) ==
    [H EXCEPT !.mods = TriggerAll(H.mods, H.vobj[v].modulators, FALSE),
              !.vobj[v].gate_on = FALSE, !.vobj[v].active = FALSE]

\* SynthVoice.trigger_off
Voice_trigger_off(H, v) ==
    [H EXCEPT !.mods = TriggerAll(H.mods, H.vobj[v].modulators, FALSE),
              !.vobj[v].gate_on = FALSE]

RECURSIVE PushTargets(_, _, _)
\* for target, param in self.targets: target.accept_modulation(param, out)
PushTargets(ns, targets, out) ==
    IF targets = <<>> THEN ns
    ELSE LET t == Head(targets)
         IN  PushTargets([ns EXCEPT ![t.node] =
                              Node_accept_modulation(ns[t.node], t.param, out)],
                         Tail(targets), out)

\* a modulator whose render pushes nothing to its targets
AfterModNoPush(H, x, r) == [H EXCEPT !.mods[x] = r.m]

\* what a modulator x leaves of the heap, its render having given r:
\* the object afterwards and the block pushed to the targets
AfterMod(H, x, r) ==
    [H EXCEPT !.mods[x] = r.m,
              !.nodes = PushTargets(H.nodes, r.m.targets, r.out)]

RECURSIVE RenderMods(_, _, _)
\* for mod in self.modulators: mod.render(frames)
RenderMods(H, list, frames) ==
    IF list = <<>> THEN H
    ELSE RenderMods(AfterMod(H, Head(list),
                             Mod_render(H.mods[Head(list)], frames)),
                    Tail(list), frames)

\* what a module x leaves of the chain, its process having given r (in a
\* voice every pending buffer was rendered with the frames of the same
\* call, so process does not raise)
AfterNode(ns, x, r) == [nodes |-> [ns EXCEPT ![x] = r.nd], signal |-> Some(r.out)]

RECURSIVE ProcessChain(_, _, _)
\* for module in self.modules: signal = module.process(signal, frames);
\* c = [nodes, signal]
ProcessChain(c, list, frames) ==
    IF list = <<>> THEN c
    ELSE ProcessChain(AfterNode(c.nodes, Head(list),
                                Node_process(c.nodes[Head(list)], c.signal,
                                             frames)),
                      Tail(list), frames)

\* a test that takes every modulator for active
ModActiveAll(m) == TRUE

\* getattr(mod, "active", False)
ModActive(m) == IF "active" \in DOMAIN m THEN m.active ELSE FALSE

\* the end of SynthVoice.render: the active flag and the block, H1 being
\* the heap after the modulators and c what the chain gave
Voice_finish(H1, v, c, frames) ==
    LET any_mod_active ==
            \E j \in 1..Len(H1.vobj[v].modulators) :
                ModActive(H1.mods[H1.vobj[v].modulators[j]])
        act == ~(~H1.vobj[v].gate_on /\ ~any_mod_active)
    IN  [H |-> [H1 EXCEPT !.nodes = c.nodes, !.vobj[v].active = act],
         out |-> IF c.signal # NoBuf THEN c.signal[1] ELSE Zeros(frames)]

\* the chain of SynthVoice.render, H1 being the heap after the modulators
Voice_chain(H1, v, frames) ==
    Voice_finish(H1, v,
                 ProcessChain([nodes |-> H1.nodes, signal |-> NoBuf],
                              H1.vobj[v].modules, frames),
                 frames)

\* SynthVoice.render(frames): [H |-> the heap afterwards, out |-> the block]
Voice_render(H, v, frames) ==
    Voice_chain(RenderMods(H, H.vobj[v].modulators, frames), v, frames)

(***************************************************************************)
(* Mixer (voice.py).  A mixer is an object of the heap beside the voices:  *)
(* vobj[x] = [kind |-> "mixer", voices |-> the list of its children,       *)
(* gain |-> its gain, lock |-> the holder of its self._lock, or "free"].   *)
(* The operators below are the bodies of its methods, inside their         *)
(* "with self._lock:"; the actions that call them take and release the     *)
(* lock when more than one thread calls the mixer.                         *)
(***************************************************************************)
NewMixer(children, gain) ==
    [kind |-> "mixer", voices |-> children, gain |-> gain, lock |-> "free"]

\* self.voices.append(voice)
Mixer_add_voice(H, x, v) == [H EXCEPT !.vobj[x].voices = Append(@, v)]

\* if voice in self.voices: self.voices.remove(voice)
Mixer_remove_voice(H, x, v) ==
    LET l == H.vobj[x].voices
        at == {i \in 1..Len(l) : l[i] = v}
    IN  IF at = {} THEN H
        ELSE LET first == CHOOSE i \in at : \A j \in at : i <= j
             IN  [H EXCEPT !.vobj[x].voices =
                      [i \in 1..(Len(l) - 1) |->
                          IF i < first THEN l[i] ELSE l[i + 1]]]

RECURSIVE TriggerVoices(_, _, _)
\* for voice in self.voices: voice.trigger_on() (on = TRUE) or trigger_off()
TriggerVoices(H, list, on) ==
    IF list = <<>> THEN H
    ELSE TriggerVoices(IF on THEN Voice_trigger_on(H, Head(list))
                       ELSE Voice_trigger_off(H, Head(list)),
                       Tail(list), on)

Mixer_trigger_on(H, x) == TriggerVoices(H, H.vobj[x].voices, TRUE)
Mixer_trigger_off(H, x) == TriggerVoices(H, H.vobj[x].voices, FALSE)

\* a mixer that keeps every child
MixerKeepsAll(vo) == TRUE

\* the test of Mixer.render: voice.active (the signal is never None)
MixerKeeps(vo) == vo.active

\* a factor that ignores the number of children
MixerFactorFlat(gain, n) == gain

\* self.gain / active_count
MixerFactor(gain, n) == gain \div n

\* the body of the loop of Mixer.render for one voice v, whose render gave
\* r; s = [H, mix, active_count, surviving]
MixerStep(s, v, r) ==
    IF MixerKeeps(r.H.vobj[v])
    THEN [H |-> r.H,
          mix |-> [k \in 1..Len(s.mix) |-> s.mix[k] + r.out[k]],
          active_count |-> s.active_count + 1,
          surviving |-> Append(s.surviving, v)]
    ELSE [s EXCEPT !.H = r.H]

RECURSIVE MixerLoop(_, _, _)
\* the loop of Mixer.render over the voices of list
MixerLoop(s, list, frames) ==
    IF list = <<>> THEN s
    ELSE MixerLoop(MixerStep(s, Head(list),
                             Voice_render(s.H, Head(list), frames)),
                   Tail(list), frames)

\* the end of Mixer.render, s being what the loop left
MixerResult(x, gain, s) ==
    [H |-> [s.H EXCEPT !.vobj[x].voices = s.surviving],
     out |-> IF s.active_count > 0
             THEN [k \in 1..Len(s.mix) |->
                      Mul(s.mix[k], MixerFactor(gain, s.active_count))]
             ELSE s.mix]

\* Mixer.render(frames): [H |-> the heap afterwards, out |-> the block]
Mixer_render(H, x, frames) ==
    MixerResult(x, H.vobj[x].gain,
                MixerLoop([H |-> H, mix |-> Zeros(frames), active_count |-> 0,
                           surviving |-> <<>>], H.vobj[x].voices, frames))

(***************************************************************************)
(* SynthEngine (engine.py).                                                *)
(*   voices    self.voices: a dict, kept as the list of its items in       *)
(*             insertion order                                             *)
(*   keymap    self.keymap: key character -> voice id (None: no entry)     *)
(*   pressed   self._pressed_keys                                          *)
(*   lock      the holder of self._lock, or "free"                         *)
(*   stream, listener   self.stream and self.listener: the number of the   *)
(*             play() call that made the object, 0 for None                *)
(*   streams_on, listeners_on   the output streams and keyboard listeners  *)
(*             that are started, referenced by the engine or not           *)
(*   nplay     how many times play() was called                            *)
(*   api, kb, cb   the position of the thread that calls the public        *)
(*             methods, of the listener thread and of the audio thread     *)
(*   err       the exception that ended a thread's last call, or None      *)
(***************************************************************************)
VARIABLES voices, keymap, pressed, lock, stream, listener, streams_on,
          listeners_on, nplay, api, kb, cb, err

Ids == {"A", "B"}
VoiceObjs == {"v1", "v2"}
\* the key arguments and key events
KeyArgs == {"z", "Z", "x"}
\* how many times play() is called at most
MaxPlays == 2

\* str.lower()
Lower(k) == IF k = "Z" THEN "z" ELSE k
\* the key arguments and key events of an engine whose keymap is km
KeysOf(km) == {key \in KeyArgs : Lower(key) \in DOMAIN km}

\* dict operations on a list of items [id, voice]
DictKeys(d) == {d[i].id : i \in 1..Len(d)}
DictGet(d, id) == d[CHOOSE i \in 1..Len(d) : d[i].id = id].voice
DictSet(d, id, v) ==
    IF id \in DictKeys(d)
    THEN [i \in 1..Len(d) |-> IF d[i].id = id THEN [id |-> id, voice |-> v]
                              ELSE d[i]]
    ELSE Append(d, [id |-> id, voice |-> v])
\* a del that deletes nothing
DictDelNone(d, id) == d
DictDel(d, id) == SelectSeq(d, LAMBDA e : e.id # id)
\* list(d.values())
DictValues(d) == [i \in 1..Len(d) |-> d[i].voice]

\* add_voice that keeps the mapping a key already has (dict.setdefault)
AddVoiceKeep(vs, km, voice, id, key) ==
    [voices |-> DictSet(vs, id, voice),
     keymap |-> IF key # None /\ km[Lower(key)] = None
                THEN [km EXCEPT ![Lower(key)] = id] ELSE km,
     err |-> None]

\* the body of add_voice: self.voices[id] = voice; if key: keymap[...] = id
AddVoiceBody(vs, km, voice, id, key) ==
    [voices |-> DictSet(vs, id, voice),
     keymap |-> IF key # None THEN [km EXCEPT ![Lower(key)] = id] ELSE km,
     err |-> None]

\* a loop of remove_voice that deletes no entry
RemoveKeysNone(km, id) == km

\* the keymap after the loop of remove_voice
RemoveKeys(km, id) == [k \in DOMAIN km |-> IF km[k] = id THEN None ELSE km[k]]

\* remove_voice without its test "if id in self.voices"
RemoveVoiceUnguarded(vs, km, id) ==
    [voices |-> DictDel(vs, id),
     keymap |-> RemoveKeys(km, id),
     err |-> IF id \in DictKeys(vs) THEN None ELSE "KeyError"]

\* the body of remove_voice
RemoveVoiceBody(vs, km, id) ==
    [voices |-> IF id \in DictKeys(vs) THEN DictDel(vs, id) ELSE vs,
     keymap |-> RemoveKeys(km, id),
     err |-> None]

\* voice_on without its test "if id in self.voices"
VoiceOnUnguarded(H, vs, id) ==
    IF id \in DictKeys(vs)
    THEN [H |-> Voice_trigger_on(H, DictGet(vs, id)), err |-> None]
    ELSE [H |-> H, err |-> "KeyError"]

\* the body of voice_on: if id in self.voices: self.voices[id].trigger_on()
VoiceOnBody(H, vs, id) ==
    IF id \in DictKeys(vs)
    THEN [H |-> Voice_trigger_on(H, DictGet(vs, id)), err |-> None]
    ELSE [H |-> H, err |-> None]

\* the body of voice_off
VoiceOffBody(H, vs, id) ==
    IF id \in DictKeys(vs)
    THEN [H |-> Voice_trigger_off(H, DictGet(vs, id)), err |-> None]
    ELSE [H |-> H, err |-> None]

ApiIdle == [pc |-> "idle"]
KbIdle == [pc |-> "idle", char |-> None, id |-> None, src |-> 0]
CbIdle == [pc |-> "idle", todo |-> <<>>, cur |-> None, mix |-> <<>>,
           active |-> 0, src |-> 0]

hvars == <<nodes, mods, vobj>>
rvars == <<voices, keymap>>
lvars == <<stream, listener, streams_on, listeners_on, nplay>>

SetHeap(H) == nodes' = H.nodes /\ mods' = H.mods /\ vobj' = H.vobj

evars == <<voices, keymap, pressed, lock, stream, listener, streams_on,
           listeners_on, nplay, api, kb, cb, err>>

(* ---- calls on a modulator object by the code that owns it ------------- *)

\* mods[x].trigger_on()
ModTriggerOn(x) ==
    /\ mods' = [mods EXCEPT ![x] = Mod_trigger_on(@)]
    /\ UNCHANGED <<nodes, vobj, evars>>

\* mods[x].trigger_off()
ModTriggerOff(x) ==
    /\ mods' = [mods EXCEPT ![x] = Mod_trigger_off(@)]
    /\ UNCHANGED <<nodes, vobj, evars>>

\* mods[x].render(frames)
ModRender(x, frames) ==
    /\ SetHeap(RenderMods(Heap, <<x>>, frames))
    /\ UNCHANGED evars

(* ---- calls on a signal module by the code that owns it ---------------- *)

\* nodes[x].process(None, frames)
NodeProcess(x, frames) ==
    /\ nodes' = [nodes EXCEPT ![x] = Node_process(@, NoBuf, frames).nd]
    /\ UNCHANGED <<mods, vobj, evars>>

\* nodes[x].accept_modulation(param, buffer)
NodeAccept(x, param, buffer) ==
    /\ nodes' = [nodes EXCEPT ![x] = Node_accept_modulation(@, param, buffer)]
    /\ UNCHANGED <<mods, vobj, evars>>

\* nodes[x].process(input, frames); a call that raises leaves the module
NodeProcessWith(x, input, frames) ==
    /\ nodes' = [nodes EXCEPT ![x] = Node_process(@, input, frames).nd]
    /\ UNCHANGED <<mods, vobj, evars>>

(* ---- calls on a voice or a mixer by the code that owns it ------------- *)

VoiceTriggerOn(v) ==
    /\ SetHeap(Voice_trigger_on(Heap, v))
    /\ UNCHANGED evars

VoiceTriggerOff(v) ==
    /\ SetHeap(Voice_trigger_off(Heap, v))
    /\ UNCHANGED evars

VoiceRender(v, frames) ==
    /\ SetHeap(Voice_render(Heap, v, frames).H)
    /\ UNCHANGED evars

MixerAddVoice(x, v) ==
    /\ SetHeap(Mixer_add_voice(Heap, x, v))
    /\ UNCHANGED evars

MixerRemoveVoice(x, v) ==
    /\ SetHeap(Mixer_remove_voice(Heap, x, v))
    /\ UNCHANGED evars

MixerTriggerOn(x) ==
    /\ SetHeap(Mixer_trigger_on(Heap, x))
    /\ UNCHANGED evars

MixerTriggerOff(x) ==
    /\ SetHeap(Mixer_trigger_off(Heap, x))
    /\ UNCHANGED evars

MixerRender(x, frames) ==
    /\ SetHeap(Mixer_render(Heap, x, frames).H)
    /\ UNCHANGED evars

(* ---- the thread that calls add_voice, remove_voice, voice_on, voice_off *)

\* "with self._lock:" of a public method: entered when the lock is free.
\* Which method it is and its arguments are local to the call and are drawn
\* when its body runs.
ApiEnter ==
    /\ api.pc = "idle"
    /\ lock = "free"
    /\ lock' = "api"
    /\ api' = [pc |-> "in"]
    /\ UNCHANGED <<hvars, rvars, pressed, lvars, kb, cb, err>>

AddVoice(voice, id, key) ==
    /\ api.pc = "in"
    /\ LET r == AddVoiceBody(voices, keymap, voice, id, key)
       IN  /\ voices' = r.voices
           /\ keymap' = r.keymap
           /\ err' = [err EXCEPT !.api = r.err]
    /\ lock' = "free"
    /\ api' = ApiIdle
    /\ UNCHANGED <<hvars, pressed, lvars, kb, cb>>

RemoveVoice(id) ==
    /\ api.pc = "in"
    /\ LET r == RemoveVoiceBody(voices, keymap, id)
       IN  /\ voices' = r.voices
           /\ keymap' = r.keymap
           /\ err' = [err EXCEPT !.api = r.err]
    /\ lock' = "free"
    /\ api' = ApiIdle
    /\ UNCHANGED <<hvars, pressed, lvars, kb, cb>>

VoiceOn(id) ==
    /\ api.pc = "in"
    /\ LET r == VoiceOnBody(Heap, voices, id)
       IN  SetHeap(r.H) /\ err' = [err EXCEPT !.api = r.err]
    /\ lock' = "free"
    /\ api' = ApiIdle
    /\ UNCHANGED <<rvars, pressed, lvars, kb, cb>>

VoiceOff(id) ==
    /\ api.pc = "in"
    /\ LET r == VoiceOffBody(Heap, voices, id)
       IN  SetHeap(r.H) /\ err' = [err EXCEPT !.api = r.err]
    /\ lock' = "free"
    /\ api' = ApiIdle
    /\ UNCHANGED <<rvars, pressed, lvars, kb, cb>>

(* ---- the keyboard listener thread: _on_press and _on_release ---------- *)

\* a test of _on_press that ignores self._pressed_keys
PressAnyway(km, pr, char) == km[char] # None

\* the test of _on_press: char in self.keymap and char not in _pressed_keys
PressAccepted(km, pr, char) == km[char] # None /\ char \notin pr

\* the test of _on_release: char in self._pressed_keys
ReleaseAccepted(pr, char) == char \in pr

\* a callback that raises ends its listener (pynput stops the listener and
\* its thread when a handler lets an exception escape)
KbRaise(e) ==
    /\ err' = [err EXCEPT !.kb = e]
    /\ listeners_on' = listeners_on \ {kb.src}
    /\ kb' = KbIdle

\* _on_press up to self._pressed_keys.add(char)
KbPress(l, key) ==
    /\ kb.pc = "idle"
    /\ l \in listeners_on
    /\ LET char == Lower(key)
       IN  IF PressAccepted(keymap, pressed, char)
           THEN /\ pressed' = pressed \cup {char}
                /\ kb' = [pc |-> "press_get", char |-> char, id |-> None,
                          src |-> l]
           ELSE UNCHANGED <<pressed, kb>>
    /\ UNCHANGED <<hvars, rvars, lock, lvars, api, cb, err>>

\* the argument of self.voice_on(self.keymap[char])
KbPressGet ==
    /\ kb.pc = "press_get"
    /\ IF keymap[kb.char] = None
       THEN /\ KbRaise("KeyError")
            /\ UNCHANGED <<stream, listener, streams_on, nplay>>
       ELSE /\ kb' = [kb EXCEPT !.pc = "press_wait", !.id = keymap[kb.char]]
            /\ UNCHANGED <<lvars, err>>
    /\ UNCHANGED <<hvars, rvars, pressed, lock, api, cb>>

\* "with self._lock:" of voice_on / voice_off called by the handler
KbEnter ==
    /\ kb.pc \in {"press_wait", "rel_wait"}
    /\ lock = "free"
    /\ lock' = "kb"
    /\ kb' = [kb EXCEPT !.pc = IF kb.pc = "press_wait" THEN "press_in"
                                ELSE "rel_in"]
    /\ UNCHANGED <<hvars, rvars, pressed, lvars, api, cb, err>>

\* voice_on(id) called by _on_press
KbVoiceOn ==
    /\ kb.pc = "press_in"
    /\ LET r == VoiceOnBody(Heap, voices, kb.id)
       IN  SetHeap(r.H) /\ err' = [err EXCEPT !.kb = r.err]
    /\ lock' = "free"
    /\ kb' = KbIdle
    /\ UNCHANGED <<rvars, pressed, lvars, api, cb>>

\* _on_release up to the argument of self.voice_off(self.keymap[char])
KbRelease(l, key) ==
    /\ kb.pc = "idle"
    /\ l \in listeners_on
    /\ LET char == Lower(key)
       IN  IF ReleaseAccepted(pressed, char)
           THEN /\ pressed' = pressed \ {char}
                /\ IF keymap[char] = None
                   THEN /\ err' = [err EXCEPT !.kb = "KeyError"]
                        /\ listeners_on' = listeners_on \ {l}
                        /\ kb' = KbIdle
                        /\ UNCHANGED <<stream, listener, streams_on, nplay>>
                   ELSE /\ kb' = [pc |-> "rel_wait", char |-> char,
                                  id |-> keymap[char], src |-> l]
                        /\ UNCHANGED <<lvars, err>>
           ELSE UNCHANGED <<pressed, kb, lvars, err>>
    /\ UNCHANGED <<hvars, rvars, lock, api, cb>>

\* voice_off(id) called by _on_release
KbVoiceOff ==
    /\ kb.pc = "rel_in"
    /\ LET r == VoiceOffBody(Heap, voices, kb.id)
       IN  SetHeap(r.H) /\ err' = [err EXCEPT !.kb = r.err]
    /\ lock' = "free"
    /\ kb' = KbIdle
    /\ UNCHANGED <<rvars, pressed, lvars, api, cb>>

(* ---- the audio thread: _callback -------------------------------------- *)

\* 1/sqrt(n) in fixed point
InvSqrt(n) == CASE n = 1 -> Unit
                [] n = 2 -> (Unit * 7071) \div 10000
                [] n = 3 -> (Unit * 5773) \div 10000
                [] OTHER -> Unit \div 2

\* mix += signal
AddBlock(a, b) == [k \in 1..Len(a) |-> a[k] + b[k]]

\* mix *= 1.0 / np.sqrt(active), when active > 0
Normalize(mix, active) ==
    IF active > 0 THEN [k \in 1..Len(mix) |-> Mul(mix[k], InvSqrt(active))]
    ELSE mix

\* whether the callback renders a voice: "if voice.active:"
CbRenders(vo) == vo.active

\* a callback that enters its render pass without taking the lock
CbEnterNoLock(s) ==
    /\ cb.pc = "idle"
    /\ s \in streams_on
    /\ cb' = [pc |-> "pass", todo |-> DictValues(voices), cur |-> None,
              mix |-> Zeros(BlockSize), active |-> 0, src |-> s]
    /\ UNCHANGED <<hvars, rvars, pressed, lock, lvars, api, kb, err>>

\* mix = np.zeros(frames) and "with self._lock:"
CbEnter(s) ==
    /\ cb.pc = "idle"
    /\ s \in streams_on
    /\ lock = "free"
    /\ lock' = "cb"
    /\ cb' = [pc |-> "pass", todo |-> DictValues(voices), cur |-> None,
              mix |-> Zeros(BlockSize), active |-> 0, src |-> s]
    /\ UNCHANGED <<hvars, rvars, pressed, lvars, api, kb, err>>

\* the loop head: the next voice of self.voices.values()
CbNext ==
    /\ cb.pc = "pass"
    /\ cb.todo # <<>>
    /\ cb' = IF CbRenders(vobj[Head(cb.todo)])
             THEN [cb EXCEPT !.pc = "render", !.cur = Head(cb.todo),
                             !.todo = Tail(cb.todo)]
             ELSE [cb EXCEPT !.todo = Tail(cb.todo)]
    /\ UNCHANGED <<hvars, rvars, pressed, lock, lvars, api, kb, err>>

\* signal = voice.render(frames); mix += signal; active += 1
CbRender ==
    /\ cb.pc = "render"
    /\ LET r == Voice_render(Heap, cb.cur, BlockSize)
       IN  /\ SetHeap(r.H)
           /\ cb' = [cb EXCEPT !.pc = "pass", !.cur = None,
                               !.mix = AddBlock(cb.mix, r.out),
                               !.active = cb.active + 1]
    /\ UNCHANGED <<rvars, pressed, lock, lvars, api, kb, err>>

\* the end of the locked section; the write of the block is CbOutput
CbExit ==
    /\ cb.pc = "pass"
    /\ cb.todo = <<>>
    /\ lock' = "free"
    /\ cb' = CbIdle
    /\ UNCHANGED <<hvars, rvars, pressed, lvars, api, kb, err>>

(* ---- play() and stop(), called by the API thread ---------------------- *)

\* play(): self._start_keyboard_listener()
PlayListener ==
    /\ api.pc = "idle"
    /\ nplay < MaxPlays
    /\ nplay' = nplay + 1
    /\ listener' = nplay + 1
    /\ listeners_on' = listeners_on \cup {nplay + 1}
    /\ api' = [pc |-> "play"]
    /\ UNCHANGED <<hvars, rvars, pressed, lock, stream, streams_on, kb, cb, err>>

\* play(): self.stream = sd.OutputStream(...); self.stream.start()
PlayStream ==
    /\ api.pc = "play"
    /\ stream' = nplay
    /\ streams_on' = streams_on \cup {nplay}
    /\ api' = ApiIdle
    /\ UNCHANGED <<hvars, rvars, pressed, lock, listener, listeners_on, nplay,
                   kb, cb, err>>

\* stop(): if self.stream: stop(), close(), self.stream = None.  stop()
\* of a stream returns when its callback is not running.
StopStream ==
    /\ api.pc = "idle"
    /\ stream # 0 => (cb.pc = "idle" \/ cb.src # stream)
    /\ streams_on' = streams_on \ {stream}
    /\ stream' = 0
    /\ api' = [pc |-> "stop"]
    /\ UNCHANGED <<hvars, rvars, pressed, lock, listener, listeners_on, nplay,
                   kb, cb, err>>

\* stop(): if self.listener: stop(), self.listener = None
StopListener ==
    /\ api.pc = "stop"
    /\ listeners_on' = listeners_on \ {listener}
    /\ listener' = 0
    /\ api' = ApiIdle
    /\ UNCHANGED <<hvars, rvars, pressed, lock, stream, streams_on, nplay,
                   kb, cb, err>>

\* an output stream the engine no longer references may be finalized
StreamDropped(s) ==
    /\ s \in streams_on
    /\ s # stream
    /\ cb.pc = "idle" \/ cb.src # s
    /\ streams_on' = streams_on \ {s}
    /\ UNCHANGED <<hvars, rvars, pressed, lock, stream, listener,
                   listeners_on, nplay, api, kb, cb, err>>

(***************************************************************************)
(* What the specifications observe besides the program's state:            *)
(*   outdata   the block a callback wrote to the sink's buffer (one of     *)
(*             its two equal channels); the program never reads it         *)
(*   hist      a history variable, a record the formulas of a              *)
(*             specification read; no action of the program reads it       *)
(***************************************************************************)
VARIABLES outdata, hist

vars == <<nodes, mods, vobj, voices, keymap, pressed, lock, stream, listener,
          streams_on, listeners_on, nplay, api, kb, cb, err, outdata, hist>>

\* outdata[:] = np.column_stack((mix, mix)) of the callback that ends
CbOutput == outdata' = Normalize(cb.mix, cb.active)

(***************************************************************************)
(* The patches.  Voice v1 is an oscillator into a VCA whose gain an ADSR   *)
(* drives (voice.modulate(adsr, vca.param("gain"))); voice v2 is a         *)
(* SynthVoice() with nothing connected.                                    *)
(***************************************************************************)
\* a sawtooth oscillator at half a cycle per sample
PatchOsc == NewOsc(20, 40, "saw")

InitPatch(attack, decay, sustain, release) ==
    /\ nodes = [n \in {"o1", "a1"} |->
                   IF n = "a1" THEN NewVCA(Unit) ELSE PatchOsc]
    /\ mods = [m \in {"e1"} |->
                  NewADSR(attack, decay, sustain, release,
                          <<[node |-> "a1", param |-> "gain"]>>)]
    /\ vobj = [v \in VoiceObjs |->
                  IF v = "v1" THEN NewVoice(<<"o1", "a1">>, <<"e1">>)
                  ELSE NewVoice(<<>>, <<>>)]

\* two voices without modulators: v1 is a bare oscillator
InitBarePatch ==
    /\ nodes = [n \in {"o1"} |-> PatchOsc]
    /\ mods = <<>>
    /\ vobj = [v \in VoiceObjs |->
                  IF v = "v1" THEN NewVoice(<<"o1">>, <<>>)
                  ELSE NewVoice(<<>>, <<>>)]

\* what SynthEngine.__init__ sets besides registry and keymap, and the
\* streams and listeners after n calls of play() (n = 0 or 1)
InitRest(n) ==
    /\ pressed = {}
    /\ lock = "free"
    /\ stream = n /\ listener = n
    /\ streams_on = 1..n /\ listeners_on = 1..n
    /\ nplay = n
    /\ api = ApiIdle /\ kb = KbIdle /\ cb = CbIdle
    /\ err = [t \in {"api", "kb", "cb"} |-> None]
    /\ outdata = <<>>

\* SynthEngine() and play(): one stream and one listener run; ks are the
\* characters the keymap can hold
InitPlaying(ks) ==
    /\ voices = <<>>
    /\ keymap = [k \in ks |-> None]
    /\ InitRest(1)

(***************************************************************************)
(* SpecEngine: the engine while it plays.  The API thread registers,       *)
(* removes and triggers voices, the listener delivers press and release    *)
(* events and the stream calls the callback, in every interleaving.  The   *)
(* sink's buffer is not observed here.                                     *)
(*   hist.presses[c]  the trigger_on calls that press events of c caused   *)
(*                    since the last release event of c that was accepted  *)
(***************************************************************************)
InitSpecEngine ==
    /\ InitPatch(2, 2, Unit \div 2, 2)
    /\ InitPlaying({"z"})
    /\ hist = [presses |-> [k \in {"z"} |-> 0]]

\* an action the history does not record
Quiet == UNCHANGED <<outdata, hist>>

\* the handler's trigger_on call, when voice_on finds the id
CountPress ==
    /\ UNCHANGED outdata
    /\ hist' = [hist EXCEPT
                 !.presses[kb.char] = IF kb.id \in DictKeys(voices)
                                      THEN Min(@ + 1, 2) ELSE @]

\* a release event: it is accepted when it unmarks the key
CountRelease(key) ==
    /\ UNCHANGED outdata
    /\ hist' = IF pressed' # pressed
               THEN [hist EXCEPT !.presses[Lower(key)] = 0] ELSE hist

NextEngine ==
    \/ ApiEnter /\ Quiet
    \/ \E voice \in VoiceObjs, id \in Ids, key \in KeysOf(keymap) \cup {None} :
           AddVoice(voice, id, key) /\ Quiet
    \/ \E id \in Ids : RemoveVoice(id) /\ Quiet
    \/ \E id \in Ids : VoiceOn(id) /\ Quiet
    \/ \E id \in Ids : VoiceOff(id) /\ Quiet
    \/ \E l \in 1..MaxPlays, key \in KeysOf(keymap) : KbPress(l, key) /\ Quiet
    \/ \E l \in 1..MaxPlays, key \in KeysOf(keymap) :
           KbRelease(l, key) /\ CountRelease(key)
    \/ KbPressGet /\ Quiet
    \/ KbEnter /\ Quiet
    \/ KbVoiceOn /\ CountPress
    \/ KbVoiceOff /\ Quiet
    \/ \E s \in 1..MaxPlays : CbEnter(s) /\ Quiet
    \/ CbNext /\ Quiet
    \/ CbRender /\ Quiet
    \/ CbExit /\ Quiet

SpecEngine == InitSpecEngine /\ [][NextEngine]_vars

(***************************************************************************)
(* SpecRemap: the same threads over two voices without modulators.         *)
(*   hist.reg[c]   the [id, voice] of the last two add_voice calls with    *)
(*                 key c (of one, or none, when there were fewer); emptied *)
(*                 when the id of the last one is removed or is bound      *)
(*                 again by an add_voice without that key                  *)
(*   hist.stale    an add_voice or remove_voice ran after the running      *)
(*                 handler read the keymap                                 *)
(***************************************************************************)
InitSpecRemap ==
    /\ InitBarePatch
    /\ InitPlaying({"z"})
    /\ hist = [reg |-> [k \in {"z"} |-> <<>>], stale |-> FALSE]

KbMid == {"press_wait", "press_in", "rel_wait", "rel_in"}

LastId(r) == IF r = <<>> THEN None ELSE r[Len(r)].id

NoteAdd(voice, id, key) ==
    /\ UNCHANGED outdata
    /\ hist' = [reg |-> [k \in DOMAIN hist.reg |->
                           LET r == hist.reg[k]
                               e == [id |-> id, voice |-> voice]
                           IN  IF key # None /\ k = Lower(key)
                               THEN IF r = <<>> THEN <<e>> ELSE <<r[Len(r)], e>>
                               ELSE IF LastId(r) = id THEN <<>> ELSE r],
                stale |-> hist.stale \/ kb.pc \in KbMid]

NoteRemove(id) ==
    /\ UNCHANGED outdata
    /\ hist' = [reg |-> [k \in DOMAIN hist.reg |->
                           IF LastId(hist.reg[k]) = id THEN <<>>
                           ELSE hist.reg[k]],
                stale |-> hist.stale \/ kb.pc \in KbMid]

\* the handler reads the keymap anew, or ends
NoteFresh == UNCHANGED outdata /\ hist' = [hist EXCEPT !.stale = FALSE]

NextRemap ==
    \/ ApiEnter /\ Quiet
    \/ \E voice \in VoiceObjs, id \in Ids, key \in KeysOf(keymap) \cup {None} :
           AddVoice(voice, id, key) /\ NoteAdd(voice, id, key)
    \/ \E id \in Ids : RemoveVoice(id) /\ NoteRemove(id)
    \/ \E id \in Ids : VoiceOn(id) /\ Quiet
    \/ \E id \in Ids : VoiceOff(id) /\ Quiet
    \/ \E l \in 1..MaxPlays, key \in KeysOf(keymap) : KbPress(l, key) /\ Quiet
    \/ \E l \in 1..MaxPlays, key \in KeysOf(keymap) :
           KbRelease(l, key) /\ NoteFresh
    \/ KbPressGet /\ NoteFresh
    \/ KbEnter /\ Quiet
    \/ KbVoiceOn /\ NoteFresh
    \/ KbVoiceOff /\ NoteFresh
    \/ \E s \in 1..MaxPlays : CbEnter(s) /\ Quiet
    \/ CbNext /\ Quiet
    \/ CbRender /\ Quiet
    \/ CbExit /\ Quiet

SpecRemap == InitSpecRemap /\ [][NextRemap]_vars

(***************************************************************************)
(* SpecApi: the public methods called one after the other while the        *)
(* listener delivers events of one key.  The audio thread, which leaves    *)
(* registry, keymap and held keys alone, is not followed.                  *)
(*   hist.last   the last call of add_voice, remove_voice, voice_on or     *)
(*               voice_off that returned:                                  *)
(*     op, id    the method and its id argument                            *)
(*     absent    the id was not registered when the call ran               *)
(*     same      the call left registry, keymap, held keys and every       *)
(*               voice, node and modulator as they were                    *)
(*     err       the exception the call raised, or None                    *)
(*     again     the call before it was the same method with the same id   *)
(*   hist.add    the last call if it was add_voice, or the call before     *)
(*               the last if the last was remove_voice of the same id:     *)
(*     id        its id argument, None when there is no such call          *)
(*     fresh     the id was not registered, and the key was None or its    *)
(*               lower case was not in the keymap                          *)
(*     voices, keymap   the registry and the keymap before the call        *)
(*     removed   remove_voice(id) has followed                             *)
(***************************************************************************)
NoCall == [op |-> None, id |-> None, absent |-> FALSE, same |-> FALSE,
           err |-> None, again |-> FALSE]
NoAdd == [id |-> None, fresh |-> FALSE, voices |-> <<>>, keymap |-> <<>>,
          removed |-> FALSE]

InitSpecApi ==
    /\ InitPatch(2, 2, Unit \div 2, 2)
    /\ InitPlaying({"z"})
    /\ hist = [last |-> NoCall, add |-> NoAdd]

NoteCall(op, id, key) ==
    /\ UNCHANGED outdata
    /\ hist' =
         [last |-> [op |-> op, id |-> id,
                    absent |-> id \notin DictKeys(voices),
                    same |-> /\ voices' = voices /\ keymap' = keymap
                             /\ pressed' = pressed /\ nodes' = nodes
                             /\ mods' = mods /\ vobj' = vobj,
                    err |-> err'.api,
                    again |-> hist.last.op = op /\ hist.last.id = id],
          add |-> CASE op = "add_voice" ->
                         [id |-> id,
                          fresh |-> /\ id \notin DictKeys(voices)
                                    /\ (key = None \/ keymap[Lower(key)] = None),
                          voices |-> voices, keymap |-> keymap,
                          removed |-> FALSE]
                    [] /\ op = "remove_voice" /\ hist.last.op = "add_voice"
                       /\ hist.add.id = id ->
                         [hist.add EXCEPT !.removed = TRUE]
                    [] OTHER -> NoAdd]

NextApi ==
    \/ ApiEnter /\ Quiet
    \/ \E voice \in VoiceObjs, id \in Ids, key \in KeysOf(keymap) \cup {None} :
           AddVoice(voice, id, key) /\ NoteCall("add_voice", id, key)
    \/ \E id \in Ids : RemoveVoice(id) /\ NoteCall("remove_voice", id, None)
    \/ \E id \in Ids : VoiceOn(id) /\ NoteCall("voice_on", id, None)
    \/ \E id \in Ids : VoiceOff(id) /\ NoteCall("voice_off", id, None)
    \/ \E l \in 1..MaxPlays, key \in KeysOf(keymap) : KbPress(l, key) /\ Quiet
    \/ \E l \in 1..MaxPlays, key \in KeysOf(keymap) : KbRelease(l, key) /\ Quiet
    \/ KbPressGet /\ Quiet
    \/ KbEnter /\ Quiet
    \/ KbVoiceOn /\ Quiet
    \/ KbVoiceOff /\ Quiet

SpecApi == InitSpecApi /\ [][NextApi]_vars

(***************************************************************************)
(* SpecPlay: play() and stop() called in any order, at most MaxPlays       *)
(* calls of play(), on an engine made by SynthEngine() and                 *)
(* add_voice(v1, "A", "z"); the listeners deliver events of the key z and  *)
(* the streams call the callback.                                          *)
(*   hist.on_blocks    the callbacks that ended since the trigger_on of    *)
(*                     the last press, -1 once the key is released (and    *)
(*                     before the first press)                             *)
(*   hist.off_blocks   the callbacks that ended since the trigger_off of   *)
(*                     the last release, -1 when the key is held (and      *)
(*                     before the first release)                           *)
(*   both counted up to MaxBlocks                                          *)
(***************************************************************************)
MaxBlocks == 3

InitSpecPlay ==
    /\ InitPatch(2, 2, Unit \div 2, 2)
    /\ voices = <<[id |-> "A", voice |-> "v1"]>>
    /\ keymap = [k \in {"z"} |-> "A"]
    /\ InitRest(0)
    /\ hist = [on_blocks |-> -1, off_blocks |-> -1]

NotePressed ==
    /\ UNCHANGED outdata
    /\ hist' = [on_blocks |-> 0, off_blocks |-> -1]

NoteReleased ==
    /\ UNCHANGED outdata
    /\ hist' = [on_blocks |-> -1, off_blocks |-> 0]

CountBlock ==
    hist' = [on_blocks |-> IF hist.on_blocks < 0 THEN -1
                           ELSE Min(hist.on_blocks + 1, MaxBlocks),
             off_blocks |-> IF hist.off_blocks < 0 THEN -1
                            ELSE Min(hist.off_blocks + 1, MaxBlocks)]

NextPlay ==
    \/ PlayListener /\ Quiet
    \/ PlayStream /\ Quiet
    \/ StopStream /\ Quiet
    \/ StopListener /\ Quiet
    \/ \E s \in 1..MaxPlays : StreamDropped(s) /\ Quiet
    \/ \E l \in 1..MaxPlays, key \in KeysOf(keymap) : KbPress(l, key) /\ Quiet
    \/ \E l \in 1..MaxPlays, key \in KeysOf(keymap) : KbRelease(l, key) /\ Quiet
    \/ KbPressGet /\ Quiet
    \/ KbEnter /\ Quiet
    \/ KbVoiceOn /\ NotePressed
    \/ KbVoiceOff /\ NoteReleased
    \/ \E s \in 1..MaxPlays : CbEnter(s) /\ Quiet
    \/ CbNext /\ Quiet
    \/ CbRender /\ Quiet
    \/ CbExit /\ CbOutput /\ CountBlock

SpecPlay == InitSpecPlay /\ [][NextPlay]_vars

(***************************************************************************)
(* SpecADSR: one SynthADSR object, without targets, whose owner calls      *)
(* trigger_on, trigger_off and render(frames) in any order, for every      *)
(* envelope drawn from the sets below (durations in samples).              *)
(*   hist.since   the frames rendered since a trigger_on that found the    *)
(*                envelope in stage off, counted up to MaxSince; -1 when   *)
(*                there was none or another trigger followed it            *)
(*   hist.rel     the frames rendered since a trigger_off that found the   *)
(*                envelope in stage sustain, counted up to MaxSince; -1    *)
(*                when there was none or another trigger followed it       *)
(*   hist.op      the last operation: "new", "on", "off" or "render"       *)
(*   hist.from    the stage before the last operation                      *)
(***************************************************************************)
Attacks == {1, 2, 4}
Decays == {1, 2}
Sustains == {0, Unit \div 2, Unit}
Releases == {1, 2}
\* the block lengths of a render call
MaxFrames == 4
MaxSince == 2 * MaxFrames

InitSpecADSR ==
    /\ \E a \in Attacks, d \in Decays, su \in Sustains, r \in Releases :
           mods = [m \in {"e1"} |-> NewADSR(a, d, su, r, <<>>)]
    /\ nodes = <<>>
    /\ vobj = <<>>
    /\ voices = <<>>
    /\ keymap = <<>>
    /\ InitRest(0)
    /\ hist = [since |-> -1, rel |-> -1, op |-> "new", from |-> "off"]

SinceOn(x) ==
    /\ UNCHANGED outdata
    /\ hist' = [since |-> IF mods[x].env_phase = "off" THEN 0 ELSE -1,
                rel |-> -1, op |-> "on", from |-> mods[x].env_phase]

SinceOff(x) ==
    /\ UNCHANGED outdata
    /\ hist' = [since |-> -1,
                rel |-> IF mods[x].env_phase = "sustain" THEN 0 ELSE -1,
                op |-> "off", from |-> mods[x].env_phase]

SinceRender(x, frames) ==
    /\ UNCHANGED outdata
    /\ hist' = [since |-> IF hist.since < 0 THEN -1
                          ELSE Min(hist.since + frames, MaxSince),
                rel |-> IF hist.rel < 0 THEN -1
                        ELSE Min(hist.rel + frames, MaxSince),
                op |-> "render", from |-> mods[x].env_phase]

NextADSR ==
    \/ ModTriggerOn("e1") /\ SinceOn("e1")
    \/ ModTriggerOff("e1") /\ SinceOff("e1")
    \/ \E frames \in 1..MaxFrames :
           ModRender("e1", frames) /\ SinceRender("e1", frames)

SpecADSR == InitSpecADSR /\ [][NextADSR]_vars

(***************************************************************************)
(* SpecOsc: one SynthOscillator and one SynthLFO, without modulation and   *)
(* without targets, whose owner calls process(None, frames) and            *)
(* render(frames) in any order, for every configuration drawn from the     *)
(* sets below.  The history is not used.                                   *)
(***************************************************************************)
\* frequencies in Hz; PatchRate, the sample rate, is two samples per cycle
\* at 20 Hz, the lower clamp of the oscillator
OscFreqs == {20, 25, 30}
LfoFreqs == {5, 10}
PatchRate == 2 * 20
OscWaves == {"sine", "square", "saw"}
LfoWaves == {"sine", "square", "saw", "triangle"}

InitSpecOsc ==
    /\ \E f \in OscFreqs, w \in OscWaves :
           nodes = [n \in {"o1"} |-> NewOsc(f, PatchRate, w)]
    /\ \E f \in LfoFreqs, w \in LfoWaves :
           mods = [m \in {"l1"} |-> NewLFO(f, Unit, w, PatchRate, <<>>)]
    /\ vobj = <<>>
    /\ voices = <<>>
    /\ keymap = <<>>
    /\ InitRest(0)
    /\ hist = <<>>

NextOsc ==
    \/ \E frames \in 1..MaxFrames : NodeProcess("o1", frames) /\ Quiet
    \/ \E frames \in 1..MaxFrames : ModRender("l1", frames) /\ Quiet

SpecOsc == InitSpecOsc /\ [][NextOsc]_vars

(***************************************************************************)
(* SpecMixer: a Mixer over two voices, whose owner calls the methods of    *)
(* the mixer and of the voices in any order.  Voice v1 is two oscillators  *)
(* and a VCA in one chain (connect([osc1, osc2]); connect(vca)) with an    *)
(* ADSR on the gain; voice v2 is an oscillator and a VCA with an LFO on    *)
(* the gain; voice v3 has no module and no modulator, and is only         *)
(* rendered.  A voice is added to the mixer only while it is not in it.    *)
(*   outdata        the block the last call returned, <<>> when it         *)
(*                  returned none                                          *)
(*   hist.op        the last call: "new", "list" (add_voice, remove_voice),*)
(*                  "trigger_on", "trigger_off", "voice_render" or         *)
(*                  "mixer_render"                                         *)
(*   hist.arg       the voice a method of SynthVoice was called on, None   *)
(*                  when the call was on the mixer                         *)
(*   hist.children  the mixer's list before the last call                  *)
(***************************************************************************)
InitSpecMixer ==
    /\ nodes = [n \in {"o1", "o2", "a1", "o3", "a2"} |->
                  CASE n = "o1" -> NewOsc(PatchRate, PatchRate, "saw")
                    [] n = "o2" -> NewOsc(20, PatchRate, "saw")
                    [] n = "o3" -> NewOsc(20, PatchRate, "saw")
                    [] OTHER -> NewVCA(Unit)]
    /\ mods = [m \in {"e1", "l1"} |->
                 IF m = "e1"
                 THEN NewADSR(2, 2, Unit \div 100, 2,
                              <<[node |-> "a1", param |-> "gain"]>>)
                 ELSE NewLFO(20, Unit, "triangle", PatchRate,
                             <<[node |-> "a2", param |-> "gain"]>>)]
    /\ vobj = [v \in {"v1", "v2", "v3", "mx"} |->
                 CASE v = "v1" -> NewVoice(<<"o1", "o2", "a1">>, <<"e1">>)
                   [] v = "v2" -> NewVoice(<<"o3", "a2">>, <<"l1">>)
                   [] v = "v3" -> NewVoice(<<>>, <<>>)
                   [] OTHER -> NewMixer(<<"v1", "v2">>, Unit)]
    /\ voices = <<>>
    /\ keymap = <<>>
    /\ InitRest(0)
    /\ hist = [op |-> "new", arg |-> None, children |-> <<>>]

Note(op, arg) ==
    hist' = [op |-> op, arg |-> arg, children |-> vobj["mx"].voices]

InMixer(v) == \E i \in 1..Len(vobj["mx"].voices) : vobj["mx"].voices[i] = v

NextMixer ==
    \/ \E v \in VoiceObjs :
           VoiceTriggerOn(v) /\ Note("trigger_on", v) /\ outdata' = <<>>
    \/ \E v \in VoiceObjs :
           VoiceTriggerOff(v) /\ Note("trigger_off", v) /\ outdata' = <<>>
    \/ \E v \in VoiceObjs \cup {"v3"} :
           /\ VoiceRender(v, BlockSize)
           /\ Note("voice_render", v)
           /\ outdata' = Voice_render(Heap, v, BlockSize).out
    \/ \E v \in VoiceObjs :
           ~InMixer(v) /\ MixerAddVoice("mx", v) /\ Note("list", None)
           /\ outdata' = <<>>
    \/ \E v \in VoiceObjs :
           MixerRemoveVoice("mx", v) /\ Note("list", None) /\ outdata' = <<>>
    \/ MixerTriggerOn("mx") /\ Note("trigger_on", None) /\ outdata' = <<>>
    \/ MixerTriggerOff("mx") /\ Note("trigger_off", None) /\ outdata' = <<>>
    \/ /\ MixerRender("mx", BlockSize)
       /\ Note("mixer_render", None)
       /\ outdata' = Mixer_render(Heap, "mx", BlockSize).out

SpecMixer == InitSpecMixer /\ [][NextMixer]_vars

(***************************************************************************)
(* SpecNew: a program that constructs an envelope, an oscillator and an    *)
(* LFO from arguments of its choice, over and over, and uses the objects.  *)
(* Durations are in samples (the argument times the sample rate).          *)
(*   hist.op      the last call: "new" at the start, "SynthADSR",          *)
(*                "SynthOscillator", "SynthLFO" or "use"                   *)
(*   hist.args    the arguments of the last constructor call               *)
(*   hist.raised  whether the last constructor call raised                 *)
(***************************************************************************)
AttackArgs == {0, 2}
DecayArgs == {-1, 2}
SustainArgs == {0 - Unit \div 2, Unit \div 2, 2 * Unit}
ReleaseArgs == {0, 2}
FreqArgs == {-20, 0, 20}

\* SynthADSR.__init__, SynthOscillator.__init__, SynthLFO.__init__ store
\* their arguments and have no raise statement
Constructed(obj) == [raised |-> FALSE, obj |-> obj]

InitSpecNew ==
    /\ nodes = [n \in {"o1"} |-> NewOsc(20, PatchRate, "saw")]
    /\ mods = [m \in {"e1", "l1"} |->
                 IF m = "e1" THEN NewADSR(2, 2, Unit \div 2, 2, <<>>)
                 ELSE NewLFO(10, Unit, "saw", PatchRate, <<>>)]
    /\ vobj = <<>>
    /\ voices = <<>>
    /\ keymap = <<>>
    /\ InitRest(0)
    /\ hist = [op |-> "new", args |-> <<>>, raised |-> FALSE]

ConstructADSR(attack, decay, sustain, release) ==
    LET c == Constructed(NewADSR(attack, decay, sustain, release, <<>>))
    IN  /\ mods' = [mods EXCEPT !["e1"] = c.obj]
        /\ hist' = [op |-> "SynthADSR",
                    args |-> <<attack, decay, sustain, release>>,
                    raised |-> c.raised]
        /\ UNCHANGED <<nodes, vobj, evars, outdata>>

ConstructOsc(freq) ==
    LET c == Constructed(NewOsc(freq, PatchRate, "saw"))
    IN  /\ nodes' = [nodes EXCEPT !["o1"] = c.obj]
        /\ hist' = [op |-> "SynthOscillator", args |-> <<freq>>,
                    raised |-> c.raised]
        /\ UNCHANGED <<mods, vobj, evars, outdata>>

ConstructLFO(freq) ==
    LET c == Constructed(NewLFO(freq, Unit, "saw", PatchRate, <<>>))
    IN  /\ mods' = [mods EXCEPT !["l1"] = c.obj]
        /\ hist' = [op |-> "SynthLFO", args |-> <<freq>>, raised |-> c.raised]
        /\ UNCHANGED <<nodes, vobj, evars, outdata>>

Use == hist' = [op |-> "use", args |-> <<>>, raised |-> FALSE]

NextNew ==
    \/ \E a \in AttackArgs, d \in DecayArgs, s \in SustainArgs,
          r \in ReleaseArgs : ConstructADSR(a, d, s, r)
    \/ \E f \in FreqArgs : ConstructOsc(f)
    \/ \E f \in FreqArgs : ConstructLFO(f)
    \/ ModTriggerOn("e1") /\ Use /\ UNCHANGED outdata
    \/ ModTriggerOff("e1") /\ Use /\ UNCHANGED outdata
    \/ ModRender("e1", BlockSize) /\ Use /\ UNCHANGED outdata
    \/ ModRender("l1", BlockSize) /\ Use /\ UNCHANGED outdata
    \/ NodeProcess("o1", BlockSize) /\ Use /\ UNCHANGED outdata

SpecNew == InitSpecNew /\ [][NextNew]_vars

(***************************************************************************)
(* SpecNode: one SynthOscillator and one SynthVCA whose owner pushes        *)
(* modulation buffers of any length up to MaxFrames with                   *)
(* accept_modulation and calls process with any number of frames up to     *)
(* MaxFrames; the input of the VCA is a block of ones.                     *)
(*   outdata      the block the last process call returned, <<>> after a   *)
(*                call that returned none                                  *)
(*   hist.op      the last call: "new", "accept" or "process"              *)
(*   hist.node    the module it was made on                                *)
(*   hist.frames  the frames asked of process (0 for the other calls)      *)
(*   hist.err     the exception process raised, or None                    *)
(*   hist.buf     the pending buffer the module held when process was      *)
(*                called (NoBuf for the other calls)                       *)
(***************************************************************************)
\* the values a pushed buffer is filled with: a frequency offset in Hz for
\* the oscillator, a gain for the VCA
ModValues(x) ==
    IF x = "o1" THEN {10 * Unit, 20 * Unit} ELSE {Unit \div 4, Unit \div 2}

\* the parameter of a module that takes modulation
ParamOf(x) == IF x = "o1" THEN "freq" ELSE "gain"

\* the pending buffer of a module
PendingOf(nd) == IF nd.kind = "osc" THEN nd.freq_mod ELSE nd.gain_mod

\* np.ones(n)
Ones(n) == [k \in 1..n |-> Unit]

InitSpecNode ==
    /\ nodes = [n \in {"o1", "a1"} |->
                  IF n = "o1" THEN NewOsc(20, PatchRate, "saw") ELSE NewVCA(Unit)]
    /\ mods = <<>>
    /\ vobj = <<>>
    /\ voices = <<>>
    /\ keymap = <<>>
    /\ InitRest(0)
    /\ hist = [op |-> "new", node |-> None, frames |-> 0, err |-> None,
               buf |-> NoBuf]

NoteAccept(x) ==
    /\ hist' = [op |-> "accept", node |-> x, frames |-> 0, err |-> None,
                buf |-> NoBuf]
    /\ outdata' = <<>>

NoteProcess(x, input, frames) ==
    /\ hist' = [op |-> "process", node |-> x, frames |-> frames,
                err |-> Node_process(nodes[x], input, frames).err,
                buf |-> PendingOf(nodes[x])]
    /\ outdata' = Node_process(nodes[x], input, frames).out

NextNode ==
    \/ \E x \in {"o1", "a1"}, n \in 1..MaxFrames :
         \E v \in ModValues(x) :
           NodeAccept(x, ParamOf(x), [k \in 1..n |-> v]) /\ NoteAccept(x)
    \/ \E frames \in 1..MaxFrames :
           /\ NodeProcessWith("o1", NoBuf, frames)
           /\ NoteProcess("o1", NoBuf, frames)
    \/ \E frames \in 1..MaxFrames :
           /\ NodeProcessWith("a1", Some(Ones(frames)), frames)
           /\ NoteProcess("a1", Some(Ones(frames)), frames)

SpecNode == InitSpecNode /\ [][NextNode]_vars

(***************************************************************************)
(* Properties of the playing engine.                                       *)
(***************************************************************************)

\* C1: while the callback's render pass is in progress (and so while the
\* render of any voice is), no other thread is inside add_voice,
\* remove_voice, voice_on or voice_off: no trigger_on/trigger_off runs on a
\* voice being rendered and the registry is not mutated during the pass.
C1_RenderExclusive ==
    /\ cb.pc \in {"pass", "render"} =>
          /\ lock = "cb"
          /\ api.pc # "in"
          /\ kb.pc \notin {"press_in", "rel_in"}
    /\ api.pc = "in" => lock = "api" /\ kb.pc \notin {"press_in", "rel_in"}
    /\ kb.pc \in {"press_in", "rel_in"} => lock = "kb"

\* a voice is being rendered while the handler waits to trigger a voice
C1_Witness ==
    /\ cb.pc = "render"
    /\ kb.pc = "press_wait"
    /\ DictGet(voices, kb.id) = cb.cur

\* C2: every value in the keymap is a key of the voice registry.
C2_KeymapInRegistry ==
    \A k \in DOMAIN keymap : keymap[k] # None => keymap[k] \in DictKeys(voices)

\* a key is mapped while two voices are registered and a callback runs
C2_Witness ==
    /\ keymap["z"] = "B"
    /\ DictKeys(voices) = {"A", "B"}
    /\ cb.pc = "pass"
    /\ "z" \in pressed

\* C3: between two trigger_on calls that press events of one trigger cause
\* there is a release event of that trigger; a press of a held trigger
\* calls no trigger_on.
C3_Debounce == \A c \in DOMAIN hist.presses : hist.presses[c] <= 1

\* a held trigger whose press called trigger_on; the handler has returned
C3_Witness ==
    /\ hist.presses["z"] = 1
    /\ "z" \in pressed
    /\ kb.pc = "idle"
    /\ keymap["z"] # None

\* C4: after two add_voice calls with the same key, a handler of that key
\* which read the keymap after them calls trigger_on/trigger_off on the
\* voice of the second call, and not on the voice of the first.
C4_SecondWins ==
    (/\ kb.pc \in {"press_in", "rel_in"}
     /\ Len(hist.reg[kb.char]) = 2
     /\ ~hist.stale)
    => /\ kb.id = hist.reg[kb.char][2].id
       /\ kb.id \in DictKeys(voices)
       /\ DictGet(voices, kb.id) = hist.reg[kb.char][2].voice

\* the handler is about to trigger after two voices took the key in turn
C4_Witness ==
    /\ kb.pc = "press_in"
    /\ Len(hist.reg["z"]) = 2
    /\ ~hist.stale
    /\ hist.reg["z"][1].id # hist.reg["z"][2].id
    /\ hist.reg["z"][1].voice # hist.reg["z"][2].voice
    /\ hist.reg["z"][1].id \in DictKeys(voices)

(***************************************************************************)
(* Properties of the public methods.                                       *)
(***************************************************************************)
\* remove_voice(id) has returned right after add_voice(voice, id, key)
AddThenRemove == hist.add.removed

Restored == voices = hist.add.voices /\ keymap = hist.add.keymap

\* C5 as stated: from every registry and keymap, for every id and key,
\* add_voice(voice, id, key) then remove_voice(id) leaves the registry and
\* the keymap as they were before both calls.
C5_AddRemoveAlways == AddThenRemove => Restored

\* C5: add_voice(voice, id, key) then remove_voice(id) leaves the registry
\* and the keymap as they were before both calls, when id was not
\* registered and key was None or its lower case was not in the keymap.
C5_AddRemoveFresh == (AddThenRemove /\ hist.add.fresh) => Restored

\* a new id was added beside a registered, mapped voice and removed again
C5_Witness ==
    /\ AddThenRemove
    /\ hist.add.fresh
    /\ hist.add.voices # <<>>
    /\ keymap["z"] # None

\* C6: remove_voice(id) of an id that is not registered raises nothing and
\* leaves registry, keymap and held keys unchanged, the second time too.
C6_RemoveAbsent ==
    (hist.last.op = "remove_voice" /\ hist.last.absent)
    => (hist.last.same /\ hist.last.err = None)

\* the same unregistered id was removed twice in a row, while a key is
\* held and mapped to another voice
C6_Witness ==
    /\ hist.last.op = "remove_voice"
    /\ hist.last.absent
    /\ hist.last.again
    /\ pressed # {}
    /\ keymap["z"] # None

\* C7: voice_on(id) and voice_off(id) of an id that is not registered raise
\* nothing and leave the registry, the keymap and the state of every voice
\* and envelope unchanged.
C7_TriggerAbsent ==
    (hist.last.op \in {"voice_on", "voice_off"} /\ hist.last.absent)
    => (hist.last.same /\ hist.last.err = None)

\* voice_off of an unregistered id, beside a registered voice that sounds
C7_Witness ==
    /\ hist.last.op = "voice_off"
    /\ hist.last.absent
    /\ voices # <<>>
    /\ vobj["v1"].active
    /\ mods["e1"].env_phase = "attack"

(***************************************************************************)
(* Properties of play() and stop(), and of the envelope.                   *)
(***************************************************************************)
\* stop() has returned and play() was not called since
Stopped == api.pc = "idle" /\ stream = 0 /\ listener = 0

\* C8: after stop() returns, no further audio callback and no further
\* key-event handler of the engine fires, whatever calls of play() and
\* stop() came before, play() twice before stop() included.
C8_QuietAfterStop ==
    [][Stopped => /\ (cb.pc = "idle" => cb'.pc = "idle")
                  /\ (kb.pc = "idle" => kb'.pc = "idle")]_vars

\* a block is silent
Silent(block) == \A k \in 1..Len(block) : block[k] <= Eps /\ -block[k] <= Eps

\* C9: with the voice (oscillator into a VCA whose gain an ADSR drives) on
\* the key z, the block of the first callback after a press of z is not
\* silent; once the callbacks after a release of z cover release*sr
\* frames, the block of the last one is silent and the voice is inactive.
C9_PressReleaseScenario ==
    /\ hist.on_blocks = 1 => ~Silent(outdata)
    /\ (hist.off_blocks >= 1 /\ hist.off_blocks * BlockSize >= mods["e1"].release)
       => (Silent(outdata) /\ ~vobj["v1"].active)

\* C26: the callback renders every voice of the registry, active at its
\* entry or not: whenever its loop takes a voice from the registry's
\* values, the next thing it does is that voice's render.
C26_RendersEveryVoice ==
    [][(cb.pc = "pass" /\ cb.todo # <<>> /\ cb'.todo = Tail(cb.todo))
       => (cb'.pc = "render" /\ cb'.cur = Head(cb.todo))]_vars

\* C29: a release event of a held key whose voice remove_voice has taken
\* away since the press (the key is held and the keymap has no entry for
\* it) unmarks the key and does nothing else: no exception, the listener
\* runs on, registry, keymap and objects are as they were.
C29_ReleaseAfterRemove ==
    [][\A c \in DOMAIN keymap :
           (c \in pressed /\ c \notin pressed' /\ keymap[c] = None)
           => /\ err' = err
              /\ listeners_on' = listeners_on
              /\ UNCHANGED <<hvars, rvars>>]_vars

\* C30: a press event never fails, whatever add_voice and remove_voice do
\* on another thread meanwhile: the lookup self.keymap[char] that follows
\* the membership test raises nothing.
C30_PressNeverFails ==
    [][(kb.pc = "press_get" /\ err.kb = None)
       => (err'.kb = None /\ listeners_on' = listeners_on)]_vars

\* C10: from stage off, trigger_on and then render calls of attack*sr
\* frames in total leave the envelope at level 1.0 in stage decay.
C10_AttackReachesOne ==
    hist.since = mods["e1"].attack
    => (mods["e1"].env_level = Unit /\ mods["e1"].env_phase = "decay")

\* C11: after a trigger_off in stage sustain, render calls of
\* release*sr frames in total, however split, leave the envelope at level
\* 0, in stage off and not active.
C11_ReleaseReachesZero ==
    hist.rel = mods["e1"].release
    => /\ mods["e1"].env_level = 0
       /\ mods["e1"].env_phase = "off"
       /\ ~mods["e1"].active

\* C12: between its operations an envelope is inactive exactly when its
\* stage is off, and its stored level is 0 whenever its stage is off.
C12_ActiveIffNotOff ==
    /\ mods["e1"].active <=> mods["e1"].env_phase # "off"
    /\ mods["e1"].env_phase = "off" => mods["e1"].env_level = 0

\* a render call ended the release: the envelope is off again
C12_Witness ==
    /\ hist.op = "render"
    /\ hist.from = "release"
    /\ mods["e1"].env_phase = "off"
    /\ ~mods["e1"].active

\* the blocks of one call of n frames and of two calls of a and n - a frames
SplitAgrees(m, n, a) ==
    LET one == ADSR_render(m, n)
        head == ADSR_render(m, a)
        rest == ADSR_render(head.m, n - a)
    IN  /\ one.out = head.out \o rest.out
        /\ one.m.env_phase = rest.m.env_phase
        /\ one.m.env_level = rest.m.env_level

\* C19: from every stage and level, render(n) and render(a) followed by
\* render(n - a) give the same n samples and the same final stage and
\* level.
C19_BlockIndependent ==
    \A n \in 2..MaxFrames : \A a \in 1..(n - 1) : SplitAgrees(mods["e1"], n, a)

\* the stages a render call can end in, by the stage it starts in
RenderMoves ==
    {<<"attack", "attack">>, <<"attack", "decay">>, <<"attack", "sustain">>,
     <<"decay", "decay">>, <<"decay", "sustain">>, <<"sustain", "sustain">>,
     <<"release", "release">>, <<"release", "off">>, <<"off", "off">>}

\* C20: render moves the stage only forward along attack, decay, sustain
\* and release, off, and never out of sustain or off; trigger_off moves
\* every stage but off to release and leaves off; trigger_on moves every
\* stage to attack, active.
C20_StageMoves ==
    /\ hist.op = "render" => <<hist.from, mods["e1"].env_phase>> \in RenderMoves
    /\ hist.op = "off" =>
          mods["e1"].env_phase = IF hist.from = "off" THEN "off" ELSE "release"
    /\ hist.op = "on" => mods["e1"].env_phase = "attack" /\ mods["e1"].active

\* a render call that began in decay ended in sustain
C20_Witness ==
    /\ hist.op = "render"
    /\ hist.from = "decay"
    /\ mods["e1"].env_phase = "sustain"
    /\ mods["e1"].env_level = mods["e1"].sustain

\* C21: with sustain in [0, 1], render(frames) returns exactly frames
\* samples, every one of them in [0, 1], and stores a level in [0, 1];
\* this from every stage and level the operations lead to.
C21_RenderInRange ==
    mods["e1"].sustain \in 0..Unit
    => /\ mods["e1"].env_level \in 0..Unit
       /\ \A frames \in 1..MaxFrames :
              /\ Len(ADSR_render(mods["e1"], frames).out) = frames
              /\ \A k \in 1..frames :
                     ADSR_render(mods["e1"], frames).out[k] \in 0..Unit
              /\ ADSR_render(mods["e1"], frames).m.env_level \in 0..Unit

\* a render call has left the attack unfinished, at a level between 0 and
\* 1, from which a further render runs into the clip at 1
C21_Witness ==
    /\ hist.op = "render"
    /\ hist.from = "attack"
    /\ mods["e1"].env_phase = "attack"
    /\ mods["e1"].env_level > 0
    /\ mods["e1"].env_level < Unit
    /\ mods["e1"].env_level + (MaxFrames - 1) * (Unit \div mods["e1"].attack) > Unit

\* C22: a trigger_on in stage decay, sustain or release at a level L > 0
\* starts the attack at L: the level it leaves, and the first sample of the
\* next render, are L.
C22_AttackFromLevel ==
    [][(/\ hist'.op = "on"
        /\ mods["e1"].env_phase \in {"decay", "sustain", "release"}
        /\ mods["e1"].env_level > 0)
       => /\ mods'["e1"].env_level = mods["e1"].env_level
          /\ ADSR_render(mods'["e1"], 1).out[1] = mods["e1"].env_level]_vars

(***************************************************************************)
(* Properties of the oscillators.                                          *)
(***************************************************************************)
\* process(n) against process(a) followed by process(n - a)
OscSplitAgrees(nd, n, a) ==
    LET one == Osc_process(nd, NoBuf, n)
        head == Osc_process(nd, NoBuf, a)
        rest == Osc_process(head.nd, NoBuf, n - a)
    IN  one.out = head.out \o rest.out /\ one.nd.phase = rest.nd.phase

\* render(n) against render(a) followed by render(n - a)
LfoSplitAgrees(m, n, a) ==
    LET one == LFO_render(m, n)
        head == LFO_render(m, a)
        rest == LFO_render(head.m, n - a)
    IN  one.out = head.out \o rest.out /\ one.m.phase = rest.m.phase

\* C13: an oscillator and an LFO without modulation give the same n
\* samples and the same final phase in one call of n frames and in two
\* consecutive calls of a and n - a frames.
C13_PhaseContinuity ==
    \A n \in 2..MaxFrames : \A a \in 1..(n - 1) :
        /\ OscSplitAgrees(nodes["o1"], n, a)
        /\ LfoSplitAgrees(mods["l1"], n, a)

\* both oscillators stand in the middle of a cycle
C13_Witness ==
    /\ nodes["o1"].phase # 0
    /\ mods["l1"].phase # 0
    /\ nodes["o1"].waveform = "sine"
    /\ Osc_process(nodes["o1"], NoBuf, MaxFrames).out # Zeros(MaxFrames)

(***************************************************************************)
(* Properties of the mixer and of the voice (SpecMixer).                   *)
(***************************************************************************)

\* the children of the mixer that a render of their own, from this state,
\* leaves active
ActiveAfter ==
    SelectSeq(vobj["mx"].voices,
              LAMBDA v : Voice_render(Heap, v, BlockSize).H.vobj[v].active)

RECURSIVE SumAt(_, _)
\* the sum, at sample k, of the blocks that the voices of a list render
SumAt(list, k) ==
    IF list = <<>> THEN 0
    ELSE Voice_render(Heap, Head(list), BlockSize).out[k] + SumAt(Tail(list), k)

\* a render of voice v alone, from this state, leaves v and its objects as
\* the step did
RenderedOnce(v) ==
    LET r == Voice_render(Heap, v, BlockSize).H
    IN  /\ vobj'[v] = r.vobj[v]
        /\ \A i \in 1..Len(vobj[v].modules) :
               nodes'[vobj[v].modules[i]] = r.nodes[vobj[v].modules[i]]
        /\ \A j \in 1..Len(vobj[v].modulators) :
               mods'[vobj[v].modulators[j]] = r.mods[vobj[v].modulators[j]]

\* the step left voice v and its objects alone
Untouched(v) ==
    /\ vobj'[v] = vobj[v]
    /\ \A i \in 1..Len(vobj[v].modules) :
           nodes'[vobj[v].modules[i]] = nodes[vobj[v].modules[i]]
    /\ \A j \in 1..Len(vobj[v].modulators) :
           mods'[vobj[v].modulators[j]] = mods[vobj[v].modulators[j]]

\* what C14 asks of a step that is Mixer.render
MixerRenderStep ==
    LET n == Len(ActiveAfter)
    IN  /\ \A v \in VoiceObjs :
               IF InMixer(v) THEN RenderedOnce(v) ELSE Untouched(v)
        /\ n = 0 => outdata' = Zeros(BlockSize)
        /\ n > 0 => outdata' = [k \in 1..BlockSize |->
                                   (SumAt(ActiveAfter, k)
                                      * (vobj["mx"].gain \div n)) \div Unit]
        /\ (n = 1 /\ vobj["mx"].gain = Unit)
           => outdata' = Voice_render(Heap, ActiveAfter[1], BlockSize).out

\* C14: Mixer.render renders every current child exactly once; the block
\* it returns is the sum of the blocks of the children that are active
\* after their render, times gain / (number of those children), and
\* silence when there is none; with gain 1 and a single active child the
\* block is that child's block.
C14_MixerSum == [][hist'.op = "mixer_render" => MixerRenderStep]_vars

\* a render of the mixer has summed and scaled the blocks of two active
\* children into a block that is not silent
C14_Witness ==
    /\ hist.op = "mixer_render"
    /\ Len(hist.children) = 2
    /\ Len(vobj["mx"].voices) = 2
    /\ \E k \in 1..Len(outdata) : outdata[k] # 0

\* C15: after Mixer.render the list of children is the children of before
\* whose active flag is true after their render, in their previous order.
C15_SurvivorsInOrder ==
    hist.op = "mixer_render"
    => vobj["mx"].voices = SelectSeq(hist.children, LAMBDA v : vobj[v].active)

\* a render of the mixer has dropped its first child and kept its second
C15_Witness ==
    /\ hist.op = "mixer_render"
    /\ hist.children = <<"v2", "v1">>
    /\ vobj["mx"].voices = <<"v1">>

\* the voices the last call rendered
JustRendered ==
    CASE hist.op = "voice_render" -> {hist.arg}
      [] hist.op = "mixer_render" ->
             {hist.children[i] : i \in 1..Len(hist.children)}
      [] OTHER -> {}

\* C16: after SynthVoice.render the voice is active exactly when its gate
\* is on or one of its modulators has an active flag that is true; an LFO
\* has no such flag.
C16_VoiceActive ==
    \A v \in JustRendered :
        vobj[v].active =
            (\/ vobj[v].gate_on
             \/ \E j \in 1..Len(vobj[v].modulators) :
                    /\ mods[vobj[v].modulators[j]].kind = "adsr"
                    /\ mods[vobj[v].modulators[j]].active)

\* a render of both voices, their gates off, has left the voice with the
\* LFO inactive and the voice with the envelope, in its release, active
C16_Witness ==
    /\ hist.op = "mixer_render"
    /\ hist.children = <<"v1", "v2">>
    /\ ~vobj["v2"].gate_on /\ ~vobj["v2"].active
    /\ nodes["a2"].gain_mod # NoBuf
    /\ ~vobj["v1"].gate_on /\ vobj["v1"].active
    /\ mods["e1"].env_phase = "release"

\* C17: a voice whose chain is several oscillators and then a VCA sounds
\* all its oscillators: when the first oscillator through the VCA alone is
\* not silent, the block of the voice differs from the block of the voice
\* without its first oscillator.
C17_ChordSounds ==
    LET chord == Voice_render(Heap, "v1", BlockSize).out
        rest == Voice_render([Heap EXCEPT !.vobj["v1"].modules = Tail(@)],
                             "v1", BlockSize).out
        first == Voice_render([Heap EXCEPT !.vobj["v1"].modules =
                                              <<Head(@), @[Len(@)]>>],
                              "v1", BlockSize).out
    IN  (\E k \in 1..BlockSize : first[k] # 0) => chord # rest

\* the voices a trigger call of this step reaches: the voice it is made
\* on, or the children of the mixer
Triggered ==
    IF hist'.arg # None THEN {hist'.arg}
    ELSE {vobj["mx"].voices[i] : i \in 1..Len(vobj["mx"].voices)}

\* every modulator of voice v has had its trigger_on: an envelope is in
\* its attack at level 0 and active, an LFO is as it was
ModsTriggeredOn(v) ==
    \A j \in 1..Len(vobj[v].modulators) :
        LET x == vobj[v].modulators[j]
        IN  mods'[x] = IF mods[x].kind = "adsr"
                       THEN [mods[x] EXCEPT !.env_phase = "attack",
                                            !.env_level = 0, !.active = TRUE]
                       ELSE mods[x]

\* every modulator of voice v has had its trigger_off: an envelope that
\* was not off is in its release, an LFO is as it was
ModsTriggeredOff(v) ==
    \A j \in 1..Len(vobj[v].modulators) :
        LET x == vobj[v].modulators[j]
        IN  mods'[x] = IF mods[x].kind = "adsr" /\ mods[x].env_phase # "off"
                       THEN [mods[x] EXCEPT !.env_phase = "release"]
                       ELSE mods[x]

\* C23: SynthVoice.trigger_off sets gate_on to false, calls trigger_off on
\* every modulator and leaves the active flag as it is; trigger_on sets
\* gate_on and active to true and calls trigger_on on every modulator; the
\* active flag of a voice becomes false only in a render.
C23_TriggerFrame ==
    [][/\ hist'.op = "trigger_off"
          => \A v \in VoiceObjs :
                 IF v \in Triggered
                 THEN /\ vobj'[v] = [vobj[v] EXCEPT !.gate_on = FALSE]
                      /\ ModsTriggeredOff(v)
                 ELSE Untouched(v)
       /\ hist'.op = "trigger_on"
          => \A v \in VoiceObjs :
                 IF v \in Triggered
                 THEN /\ vobj'[v] = [vobj[v] EXCEPT !.gate_on = TRUE,
                                                    !.active = TRUE]
                      /\ ModsTriggeredOn(v)
                 ELSE Untouched(v)
       /\ hist'.op \in {"trigger_on", "trigger_off"} => nodes' = nodes
       /\ \A v \in VoiceObjs :
              (vobj[v].active /\ ~vobj'[v].active)
              => hist'.op \in {"voice_render", "mixer_render"}]_vars

\* a trigger_off on the voice with the LFO, whose gate was on, has left it
\* active with its gate off; a render would clear the flag
C23_Witness ==
    /\ hist.op = "trigger_off"
    /\ hist.arg = "v2"
    /\ ~vobj["v2"].gate_on
    /\ vobj["v2"].active
    /\ ~Voice_render(Heap, "v2", BlockSize).H.vobj["v2"].active

\* the product, sample by sample, of a signal and a gain block
Scaled(signal, gain) == [k \in 1..Len(signal) |-> (signal[k] * gain[k]) \div Unit]

\* the block a render of voice v owes, from this state: the last oscillator
\* of the chain, from its phase of now, times the block its modulator
\* renders in this call; zeros for the empty chain
BlockOwed(v) ==
    CASE v = "v1" -> Scaled(Osc_process(nodes["o2"], NoBuf, BlockSize).out,
                            ADSR_render(mods["e1"], BlockSize).out)
      [] v = "v2" -> Scaled(Osc_process(nodes["o3"], NoBuf, BlockSize).out,
                            LFO_render(mods["l1"], BlockSize).out)
      [] OTHER -> Zeros(BlockSize)

\* C24: in SynthVoice.render the modulators are rendered, and their blocks
\* pushed, before the chain is processed, so the VCA applies the gain block
\* of this very call; the modules are processed in chain order, the first
\* with no input and each next one with the output of the one before it;
\* a voice without modules returns a block of zeros of the length asked.
C24_ModsThenChain ==
    [][hist'.op = "voice_render"
       => /\ outdata' = BlockOwed(hist'.arg)
          /\ hist'.arg = "v1"
             => nodes'["a1"].gain_mod =
                    Some(ADSR_render(mods["e1"], BlockSize).out)]_vars

\* the first render after a trigger_on: the VCA held no block, or a block
\* of an earlier call, and the voice sounds with the attack of this call
C24_Witness ==
    /\ hist.op = "voice_render"
    /\ hist.arg = "v1"
    /\ mods["e1"].env_phase = "decay"
    /\ outdata = Scaled(Osc_process([nodes["o2"] EXCEPT !.phase = 0], NoBuf,
                                    BlockSize).out,
                        nodes["a1"].gain_mod[1])
    /\ \E k \in 1..BlockSize : outdata[k] # 0

\* C25: the block a child renders in the pass in which it becomes inactive
\* is in the block Mixer.render returns in that pass: when the only child
\* of the mixer is active, becomes inactive in this pass and renders a
\* block that is not all zeros, the mixer's block is not all zeros.
C25_TailMixed ==
    [][(/\ hist'.op = "mixer_render"
        /\ Len(vobj["mx"].voices) = 1
        /\ vobj[vobj["mx"].voices[1]].active
        /\ ~vobj'[vobj["mx"].voices[1]].active
        /\ \E k \in 1..BlockSize :
               Voice_render(Heap, vobj["mx"].voices[1], BlockSize).out[k] # 0)
       => \E k \in 1..BlockSize : outdata'[k] # 0]_vars

(***************************************************************************)
(* Properties of the modulation buffers (SpecNode).                        *)
(***************************************************************************)

\* C27: a process call that finds a pending buffer shorter than frames
\* raises nothing and returns exactly frames samples; the VCA, whose input
\* is ones, returns the buffer's values and then its base gain.
C27_ShortBuffer ==
    (/\ hist.op = "process"
     /\ hist.buf # NoBuf
     /\ Len(hist.buf[1]) < hist.frames)
    => /\ hist.err = None
       /\ Len(outdata) = hist.frames
       /\ hist.node = "a1"
          => outdata = [k \in 1..hist.frames |->
                           IF k <= Len(hist.buf[1]) THEN hist.buf[1][k]
                           ELSE nodes["a1"].base_gain]

\* C28: a pending buffer is valid for one process call: after process has
\* returned, the module holds none.
C28_BufferCleared ==
    hist.op = "process" => PendingOf(nodes[hist.node]) = NoBuf

(***************************************************************************)
(* Properties of construction (SpecNew).                                   *)
(***************************************************************************)

\* the arguments the claim calls invalid
InvalidArgs ==
    CASE hist.op = "SynthADSR" ->
             \/ hist.args[1] <= 0 \/ hist.args[2] <= 0 \/ hist.args[4] <= 0
             \/ hist.args[3] < 0 \/ hist.args[3] > Unit
      [] hist.op \in {"SynthOscillator", "SynthLFO"} -> hist.args[1] <= 0
      [] OTHER -> FALSE

\* C18: a SynthADSR with sustain outside [0, 1] or with attack, decay or
\* release <= 0, and a SynthOscillator or SynthLFO with frequency <= 0,
\* are rejected with an error by the constructor.
C18_InvalidRejected == InvalidArgs => hist.raised


(***************************************************************************)
(* The engine of synth8_mod.py.  Its add_voice, remove_voice, voice_on and *)
(* voice_off are those of engine.py.  Its handlers take the engine's lock  *)
(* before they test the keymap, and call voice_on / voice_off inside it;   *)
(* its callback holds the lock only while it copies the registry's values  *)
(* and renders every voice of the copy.  self._lock is a threading.Lock:   *)
(* a thread that holds it and acquires it again waits like any other.      *)
(***************************************************************************)

\* "with self._lock:" of _on_press (pc = "mod_press") or of _on_release
\* (pc = "mod_rel"), after char = key.char.lower()
ModKbEnter(l, key, pc) ==
    /\ kb.pc = "idle"
    /\ l \in listeners_on
    /\ lock = "free"
    /\ lock' = "kb"
    /\ kb' = [pc |-> pc, char |-> Lower(key), id |-> None, src |-> l]
    /\ UNCHANGED <<hvars, rvars, pressed, lvars, api, cb, err>>

\* the locked section of _on_press up to the call of self.voice_on
ModPress ==
    /\ kb.pc = "mod_press"
    /\ IF PressAccepted(keymap, pressed, kb.char)
       THEN /\ pressed' = pressed \cup {kb.char}
            /\ kb' = [kb EXCEPT !.pc = "mod_on_wait", !.id = keymap[kb.char]]
       ELSE /\ kb' = [kb EXCEPT !.pc = "mod_exit"]
            /\ UNCHANGED pressed
    /\ UNCHANGED <<hvars, rvars, lock, lvars, api, cb, err>>

\* the locked section of _on_release up to the call of self.voice_off; a
\* KeyError of self.keymap[char] leaves the "with" and ends the listener
ModRelease ==
    /\ kb.pc = "mod_rel"
    /\ IF ReleaseAccepted(pressed, kb.char)
       THEN /\ pressed' = pressed \ {kb.char}
            /\ IF keymap[kb.char] = None
               THEN /\ KbRaise("KeyError")
                    /\ lock' = "free"
                    /\ UNCHANGED <<stream, listener, streams_on, nplay>>
               ELSE /\ kb' = [kb EXCEPT !.pc = "mod_off_wait",
                                        !.id = keymap[kb.char]]
                    /\ UNCHANGED <<lock, lvars, err>>
       ELSE /\ kb' = [kb EXCEPT !.pc = "mod_exit"]
            /\ UNCHANGED <<pressed, lock, lvars, err>>
    /\ UNCHANGED <<hvars, rvars, api, cb>>

\* the end of the handler's "with self._lock:"; releasing a lock that is
\* not locked raises RuntimeError
ModKbExit ==
    /\ kb.pc = "mod_exit"
    /\ IF lock = "kb"
       THEN /\ lock' = "free"
            /\ kb' = KbIdle
            /\ UNCHANGED <<lvars, err>>
       ELSE /\ KbRaise("RuntimeError")
            /\ UNCHANGED <<lock, stream, listener, streams_on, nplay>>
    /\ UNCHANGED <<hvars, rvars, pressed, api, cb>>

\* "with self._lock:" of a public method, entered when the lock is free by
\* the thread t that called it: the API thread, or the listener thread
\* whose handler called voice_on / voice_off
ModEnter(t) ==
    /\ lock = "free"
    /\ lock' = t
    /\ IF t = "api"
       THEN /\ api.pc = "idle"
            /\ api' = [pc |-> "in"]
            /\ UNCHANGED kb
       ELSE /\ kb.pc \in {"mod_on_wait", "mod_off_wait"}
            /\ kb' = [kb EXCEPT !.pc = IF kb.pc = "mod_on_wait"
                                        THEN "mod_on_in" ELSE "mod_off_in"]
            /\ UNCHANGED api
    /\ UNCHANGED <<hvars, rvars, pressed, lvars, cb, err>>

\* the body of voice_on(id) (on = TRUE) or voice_off(id), run by thread t,
\* and the end of its "with"
ModVoiceCall(t, id, on) ==
    /\ IF t = "api"
       THEN /\ api.pc = "in"
            /\ api' = ApiIdle
            /\ UNCHANGED kb
       ELSE /\ kb.pc = (IF on THEN "mod_on_in" ELSE "mod_off_in")
            /\ id = kb.id
            /\ kb' = [kb EXCEPT !.pc = "mod_exit"]
            /\ UNCHANGED api
    /\ LET r == IF on THEN VoiceOnBody(Heap, voices, id)
                ELSE VoiceOffBody(Heap, voices, id)
       IN  SetHeap(r.H) /\ err' = [err EXCEPT ![t] = r.err]
    /\ lock' = "free"
    /\ UNCHANGED <<rvars, pressed, lvars, cb>>

\* the stream calls _callback: mix = np.zeros(frames)
ModCbStart(s) ==
    /\ cb.pc = "idle"
    /\ s \in streams_on
    /\ cb' = [CbIdle EXCEPT !.pc = "mod_wait", !.mix = Zeros(BlockSize),
                            !.src = s]
    /\ UNCHANGED <<hvars, rvars, pressed, lock, lvars, api, kb, err>>

\* with self._lock: voices_copy = list(self.voices.values())
\* (cb.cur is voices_copy, cb.todo what the loop has still to take)
ModCbCopy ==
    /\ cb.pc = "mod_wait"
    /\ lock = "free"
    /\ cb' = [cb EXCEPT !.pc = "mod_pass", !.todo = DictValues(voices),
                        !.cur = DictValues(voices)]
    /\ UNCHANGED <<hvars, rvars, pressed, lock, lvars, api, kb, err>>

\* for voice in voices_copy: mix += voice.render(frames)
ModCbRender ==
    /\ cb.pc = "mod_pass"
    /\ cb.todo # <<>>
    /\ LET r == Voice_render(Heap, Head(cb.todo), BlockSize)
       IN  /\ SetHeap(r.H)
           /\ cb' = [cb EXCEPT !.todo = Tail(cb.todo),
                               !.mix = AddBlock(cb.mix, r.out)]
    /\ UNCHANGED <<rvars, pressed, lock, lvars, api, kb, err>>

\* active_count = max(1, len([v for v in voices_copy if v.active]))
ModActiveCount(copy) ==
    Max(1, Cardinality({i \in 1..Len(copy) : vobj[copy[i]].active}))

\* outdata[:] = (mix / active_count).reshape(-1, 1)
ModCbExit ==
    /\ cb.pc = "mod_pass"
    /\ cb.todo = <<>>
    /\ outdata' = [k \in 1..Len(cb.mix) |->
                      cb.mix[k] \div ModActiveCount(cb.cur)]
    /\ cb' = CbIdle
    /\ UNCHANGED <<hvars, rvars, pressed, lock, lvars, api, kb, err, hist>>

(***************************************************************************)
(* SpecMod: the engine of synth8_mod.py while it plays, over two voices    *)
(* without modulators: the API thread registers, removes and triggers      *)
(* voices, the listener delivers press and release events of the key z     *)
(* and the stream calls the callback.  A step is taken whenever one is     *)
(* possible.                                                               *)
(***************************************************************************)
InitSpecMod ==
    /\ InitBarePatch
    /\ InitPlaying({"z"})
    /\ hist = <<>>

NextMod ==
    \/ \E t \in {"api", "kb"} : ModEnter(t) /\ Quiet
    \/ \E voice \in VoiceObjs, id \in Ids, key \in KeysOf(keymap) \cup {None} :
           AddVoice(voice, id, key) /\ Quiet
    \/ \E id \in Ids : RemoveVoice(id) /\ Quiet
    \/ \E t \in {"api", "kb"}, id \in Ids, on \in BOOLEAN :
           ModVoiceCall(t, id, on) /\ Quiet
    \/ \E l \in 1..MaxPlays, key \in KeysOf(keymap),
          pc \in {"mod_press", "mod_rel"} : ModKbEnter(l, key, pc) /\ Quiet
    \/ ModPress /\ Quiet
    \/ ModRelease /\ Quiet
    \/ ModKbExit /\ Quiet
    \/ \E s \in 1..MaxPlays : ModCbStart(s) /\ Quiet
    \/ ModCbCopy /\ Quiet
    \/ ModCbRender /\ Quiet
    \/ ModCbExit

SpecMod == InitSpecMod /\ [][NextMod]_vars /\ WF_vars(NextMod)

(***************************************************************************)
(* Properties of the engine of synth8_mod.py (SpecMod).                    *)
(***************************************************************************)

\* C31: the handler of a press event of a mapped key that is not held
\* (and of a release event of a held key) terminates and leaves the
\* engine's lock free: once the handler has marked the key and calls
\* voice_on (or has unmarked it and calls voice_off), the listener thread
\* comes back to idle without the lock, so neither the callback nor a
\* later public call waits for ever.
C31_HandlerReturns ==
    (kb.pc \in {"mod_on_wait", "mod_off_wait"})
    ~> (kb.pc = "idle" /\ lock # "kb")


(***************************************************************************)
(* The engine of engine.py with Mixers in its registry.  voice_on,         *)
(* voice_off and the callback call trigger_on, trigger_off, active and     *)
(* render on whatever object the registry holds; on a Mixer each of these  *)
(* takes the Mixer's own lock.  A thread that calls a method of a Mixer    *)
(* carries the call in its position: m the method, mx the mixer, arg the   *)
(* argument, pc = "mx_wait" before the method's "with self._lock:" and     *)
(* "mx_in" inside it.                                                      *)
(***************************************************************************)
IsMixer(vo) == "kind" \in DOMAIN vo

\* the property Mixer.active: any(v.active for v in self.voices)
Mixer_active(H, x) ==
    \E i \in 1..Len(H.vobj[x].voices) : H.vobj[H.vobj[x].voices[i]].active

Threads == {"api", "kb", "cb"}

\* the position of thread t
Pos(t) == CASE t = "api" -> api [] t = "kb" -> kb [] OTHER -> cb

SetPos(t, p) ==
    /\ api' = IF t = "api" THEN p ELSE api
    /\ kb' = IF t = "kb" THEN p ELSE kb
    /\ cb' = IF t = "cb" THEN p ELSE cb

\* the position p of a thread that calls method m of mixer x with arg
Calling(p, m, x, arg) ==
    [f \in DOMAIN p \cup {"m", "mx", "arg"} |->
        CASE f = "pc" -> "mx_wait"
          [] f = "m" -> m
          [] f = "mx" -> x
          [] f = "arg" -> arg
          [] OTHER -> p[f]]

\* the body of voice_on(id) (on = TRUE) or voice_off(id) run by thread t
\* inside the engine's lock: on a SynthVoice the method runs and the
\* "with" ends; on a Mixer the thread goes on to the Mixer's lock
LkVoiceCall(t, id, on) ==
    /\ IF t = "api" THEN api.pc = "in"
       ELSE kb.pc = (IF on THEN "press_in" ELSE "rel_in") /\ id = kb.id
    /\ IF id \in DictKeys(voices) /\ IsMixer(vobj[DictGet(voices, id)])
       THEN /\ SetPos(t, Calling(Pos(t),
                                 IF on THEN "trigger_on" ELSE "trigger_off",
                                 DictGet(voices, id), None))
            /\ UNCHANGED <<hvars, lock>>
       ELSE /\ SetHeap(IF on THEN VoiceOnBody(Heap, voices, id).H
                       ELSE VoiceOffBody(Heap, voices, id).H)
            /\ lock' = "free"
            /\ SetPos(t, IF t = "api" THEN ApiIdle ELSE KbIdle)
    /\ UNCHANGED <<rvars, pressed, lvars, err>>

\* mixer.add_voice(v) or mixer.remove_voice(v) called by the program
\* itself, outside the engine
LkDirect(x, v, m) ==
    /\ api.pc = "idle"
    /\ api' = Calling(api, m, x, v)
    /\ UNCHANGED <<hvars, rvars, pressed, lock, lvars, kb, cb, err>>

\* the loop head of the callback: "if voice.active:" reads a flag of a
\* SynthVoice and calls the property of a Mixer
LkCbNext ==
    /\ cb.pc = "pass"
    /\ cb.todo # <<>>
    /\ cb' = IF IsMixer(vobj[Head(cb.todo)])
             THEN Calling([cb EXCEPT !.todo = Tail(cb.todo)], "active",
                          Head(cb.todo), None)
             ELSE IF CbRenders(vobj[Head(cb.todo)])
                  THEN [cb EXCEPT !.pc = "render", !.cur = Head(cb.todo),
                                  !.todo = Tail(cb.todo)]
                  ELSE [cb EXCEPT !.todo = Tail(cb.todo)]
    /\ UNCHANGED <<hvars, rvars, pressed, lock, lvars, api, kb, err>>

\* "with self._lock:" of a method of Mixer, entered when that lock is free
LkMxEnter(t) ==
    /\ Pos(t).pc = "mx_wait"
    /\ vobj[Pos(t).mx].lock = "free"
    /\ vobj' = [vobj EXCEPT ![Pos(t).mx].lock = t]
    /\ SetPos(t, [Pos(t) EXCEPT !.pc = "mx_in"])
    /\ UNCHANGED <<nodes, mods, rvars, pressed, lock, lvars, err>>

\* a "with self._lock:" of Mixer that ends without giving the lock back
MxKeep(H, x, t) == H

\* the heap H with the lock of mixer x given back by the thread that holds
\* it (the end of a "with self._lock:" of Mixer)
MxRelease(H, x, t) ==
    [H EXCEPT !.vobj[x].lock = IF @ = t THEN "free" ELSE @]

\* the callback's position after voice.render(frames) gave r.out
CbAdded(p, out) ==
    [pc |-> "pass", todo |-> p.todo, cur |-> None,
     mix |-> AddBlock(p.mix, out), active |-> p.active + 1, src |-> p.src]

\* the body of the Mixer method thread t is in, the end of its "with" and
\* what the caller does next: voice_on / voice_off leave the engine's
\* lock, the callback renders the mixer it found active or takes the next
\* voice, the program's own call returns
LkMxBody(t) ==
    LET p == Pos(t)
        x == p.mx
    IN  /\ p.pc = "mx_in"
        /\ CASE p.m \in {"trigger_on", "trigger_off"} ->
                  /\ SetHeap(MxRelease(IF p.m = "trigger_on"
                                       THEN Mixer_trigger_on(Heap, x)
                                       ELSE Mixer_trigger_off(Heap, x), x, t))
                  /\ lock' = "free"
                  /\ SetPos(t, IF t = "api" THEN ApiIdle ELSE KbIdle)
             [] p.m \in {"add_voice", "remove_voice"} ->
                  /\ SetHeap(MxRelease(IF p.m = "add_voice"
                                       THEN Mixer_add_voice(Heap, x, p.arg)
                                       ELSE Mixer_remove_voice(Heap, x, p.arg),
                                       x, t))
                  /\ UNCHANGED lock
                  /\ SetPos(t, ApiIdle)
             [] p.m = "active" ->
                  /\ SetHeap(MxRelease(Heap, x, t))
                  /\ UNCHANGED lock
                  /\ SetPos(t, IF Mixer_active(Heap, x)
                               THEN [p EXCEPT !.pc = "mx_wait", !.m = "render"]
                               ELSE [f \in DOMAIN CbIdle |->
                                        IF f = "pc" THEN "pass" ELSE p[f]])
             [] OTHER ->
                  /\ SetHeap(MxRelease(Mixer_render(Heap, x, BlockSize).H, x, t))
                  /\ UNCHANGED lock
                  /\ SetPos(t, CbAdded(p, Mixer_render(Heap, x, BlockSize).out))
        /\ UNCHANGED <<rvars, pressed, lvars, err>>

(***************************************************************************)
(* SpecChord: the wiring of examples/minimal_mixer_chord.py with one note: *)
(* a Mixer whose child is the voice v1 (oscillator into a VCA whose gain   *)
(* an ADSR drives) is registered as "A" on the key z; the engine plays,    *)
(* the listener delivers events of z and the stream calls the callback.    *)
(* No other call is made on the engine or on the Mixer.                    *)
(***************************************************************************)
InitSpecChord ==
    /\ nodes = [n \in {"o1", "a1"} |->
                   IF n = "a1" THEN NewVCA(0) ELSE PatchOsc]
    /\ mods = [m \in {"e1"} |->
                  NewADSR(2, 2, Unit \div 2, 2,
                          <<[node |-> "a1", param |-> "gain"]>>)]
    /\ vobj = [v \in {"v1", "mx"} |->
                  IF v = "v1" THEN NewVoice(<<"o1", "a1">>, <<"e1">>)
                  ELSE NewMixer(<<"v1">>, Unit)]
    /\ voices = <<[id |-> "A", voice |-> "mx"]>>
    /\ keymap = [k \in {"z"} |-> "A"]
    /\ InitRest(1)
    /\ hist = <<>>

NextChord ==
    \/ \E l \in 1..MaxPlays, key \in KeysOf(keymap) : KbPress(l, key) /\ Quiet
    \/ \E l \in 1..MaxPlays, key \in KeysOf(keymap) : KbRelease(l, key) /\ Quiet
    \/ KbPressGet /\ Quiet
    \/ KbEnter /\ Quiet
    \/ \E id \in Ids, on \in BOOLEAN : LkVoiceCall("kb", id, on) /\ Quiet
    \/ \E t \in {"kb", "cb"} : LkMxEnter(t) /\ Quiet
    \/ \E t \in {"kb", "cb"} : LkMxBody(t) /\ Quiet
    \/ \E s \in 1..MaxPlays : CbEnter(s) /\ Quiet
    \/ LkCbNext /\ Quiet
    \/ CbExit /\ CbOutput /\ UNCHANGED hist

SpecChord == InitSpecChord /\ [][NextChord]_vars

(***************************************************************************)
(* Properties of an engine with a Mixer in its registry.                   *)
(***************************************************************************)

\* C32: a Mixer registered in the engine under a key responds to every
\* press: when the handler's voice_on has called the Mixer's trigger_on
\* and returned, the Mixer is active (its children received trigger_on),
\* so the callbacks that follow render it; also after a press/release
\* cycle in which all its children finished their release.
C32_MixerRetriggers ==
    [][(kb.pc = "mx_in" /\ kb.m = "trigger_on" /\ kb'.pc = "idle")
       => Mixer_active([nodes |-> nodes', mods |-> mods', vobj |-> vobj'],
                       "mx")]_vars


(***************************************************************************)
(* SpecHeld: the engine of engine.py while add_voice is called on one      *)
(* thread and the listener delivers press and release events of the key z  *)
(* on another.  The audio thread, which leaves registry, keymap and gates  *)
(* alone, is not followed.                                                 *)
(*   hist.on   the voice object that received trigger_on from the handler  *)
(*             of the last press of z, None once the handler of a release  *)
(*             of z has called voice_off (and before the first press)      *)
(***************************************************************************)
InitSpecHeld ==
    /\ InitBarePatch
    /\ InitPlaying({"z"})
    /\ hist = [on |-> None]

\* the handler's trigger_on call, when voice_on finds the id
NoteOn ==
    /\ UNCHANGED outdata
    /\ hist' = [on |-> IF kb.id \in DictKeys(voices)
                       THEN DictGet(voices, kb.id) ELSE None]

NoteOff == UNCHANGED outdata /\ hist' = [on |-> None]

NextHeld ==
    \/ ApiEnter /\ Quiet
    \/ \E voice \in VoiceObjs, id \in Ids, key \in KeysOf(keymap) \cup {None} :
           AddVoice(voice, id, key) /\ Quiet
    \/ \E l \in 1..MaxPlays, key \in KeysOf(keymap) : KbPress(l, key) /\ Quiet
    \/ \E l \in 1..MaxPlays, key \in KeysOf(keymap) : KbRelease(l, key) /\ Quiet
    \/ KbPressGet /\ Quiet
    \/ KbEnter /\ Quiet
    \/ KbVoiceOn /\ NoteOn
    \/ KbVoiceOff /\ NoteOff

SpecHeld == InitSpecHeld /\ [][NextHeld]_vars

\* C33: no stuck notes: the voice that received trigger_on because of a
\* press event of a key receives trigger_off at the next release event of
\* that key (its gate is off when the release handler's voice_off has
\* returned), also when add_voice has mapped the key to another voice id
\* while the key was held.
C33_NoStuckNotes ==
    [][(kb.pc = "rel_in" /\ kb'.pc = "idle" /\ hist.on # None)
       => ~vobj'[hist.on].gate_on]_vars


(***************************************************************************)
(* Wiring a voice (voice.py): SynthVoice.modulate and add_modulator.       *)
(***************************************************************************)
\* SynthModulator.modulate: self.targets.append((target, param))
Mod_modulate(m, node, param) ==
    [m EXCEPT !.targets = Append(@, [node |-> node, param |-> param])]

\* SynthVoice.modulate(modulator, target, param):
\* self.modulators.append(modulator); modulator.modulate(target, param)
Voice_modulate(H, v, x, node, param) ==
    [H EXCEPT !.vobj[v].modulators = Append(@, x),
              !.mods[x] = Mod_modulate(@, node, param)]

\* SynthVoice.add_modulator(modulator): self.modulators.append(modulator)
Voice_add_modulator(H, v, x) == [H EXCEPT !.vobj[v].modulators = Append(@, x)]

VoiceModulate(v, x, node, param) ==
    /\ SetHeap(Voice_modulate(Heap, v, x, node, param))
    /\ UNCHANGED evars

VoiceAddModulator(v, x) ==
    /\ SetHeap(Voice_add_modulator(Heap, v, x))
    /\ UNCHANGED evars

(***************************************************************************)
(* SpecRoute: a program wires the voice v1 (oscillator into a VCA) with an *)
(* ADSR and an LFO, by voice.modulate(source, vca, "gain") and by          *)
(* voice.add_modulator(source), at most MaxRoutes registrations in all,    *)
(* and triggers and renders the voice.                                     *)
(*   hist.op       the last call: "new", "wire", "trigger" or "render"     *)
(*   hist.frames   the frames of the last call when it was a render        *)
(***************************************************************************)
MaxRoutes == 2

InitSpecRoute ==
    /\ nodes = [n \in {"o1", "a1"} |->
                   IF n = "a1" THEN NewVCA(Unit) ELSE PatchOsc]
    /\ mods = [m \in {"e1", "l1"} |->
                  IF m = "e1" THEN NewADSR(4, 2, Unit \div 2, 4, <<>>)
                  ELSE NewLFO(10, Unit, "triangle", PatchRate, <<>>)]
    /\ vobj = [v \in {"v1"} |-> NewVoice(<<"o1", "a1">>, <<>>)]
    /\ voices = <<>>
    /\ keymap = <<>>
    /\ InitRest(0)
    /\ hist = [op |-> "new", frames |-> 0]

NoteRoute(op, frames) ==
    /\ UNCHANGED outdata
    /\ hist' = [op |-> op, frames |-> frames]

NextRoute ==
    \/ \E x \in {"e1", "l1"} :
           /\ Len(vobj["v1"].modulators) < MaxRoutes
           /\ VoiceModulate("v1", x, "a1", "gain")
           /\ NoteRoute("wire", 0)
    \/ \E x \in {"e1", "l1"} :
           /\ Len(vobj["v1"].modulators) < MaxRoutes
           /\ VoiceAddModulator("v1", x)
           /\ NoteRoute("wire", 0)
    \/ VoiceTriggerOn("v1") /\ NoteRoute("trigger", 0)
    \/ VoiceTriggerOff("v1") /\ NoteRoute("trigger", 0)
    \/ \E frames \in {2, BlockSize} :
           VoiceRender("v1", frames) /\ NoteRoute("render", frames)

SpecRoute == InitSpecRoute /\ [][NextRoute]_vars

\* C34: within one SynthVoice.render every distinct modulator of the
\* voice is rendered exactly once, so its envelope or phase advances by
\* the frames of the call and no more, also when the same modulator was
\* registered through several modulate calls or through modulate and
\* add_modulator.
C34_EachModulatorOnce ==
    [][hist'.op = "render"
       => \A x \in DOMAIN mods :
              (\E j \in 1..Len(vobj["v1"].modulators) :
                   vobj["v1"].modulators[j] = x)
              => mods'[x] = Mod_render(mods[x], hist'.frames).m]_vars


(***************************************************************************)
(* SpecSteady: one SynthADSR object, without targets, whose owner renders  *)
(* it with blocks of one fixed length, calls trigger_on once and may call  *)
(* trigger_off once afterwards; for the durations of SpecADSR, a sustain   *)
(* of one half and every block length up to MaxFrames.                     *)
(*   hist.frames   the block length                                        *)
(*   hist.gate     "new", "on" after trigger_on, "off" after trigger_off   *)
(*   hist.tick     the parity of the number of render calls                *)
(***************************************************************************)
InitSpecSteady ==
    /\ \E a \in Attacks, d \in Decays, r \in Releases :
           mods = [m \in {"e1"} |-> NewADSR(a, d, Unit \div 2, r, <<>>)]
    /\ nodes = <<>>
    /\ vobj = <<>>
    /\ voices = <<>>
    /\ keymap = <<>>
    /\ InitRest(0)
    /\ \E f \in 1..MaxFrames : hist = [frames |-> f, gate |-> "new", tick |-> 0]

NextSteady ==
    \/ /\ hist.gate = "new"
       /\ ModTriggerOn("e1")
       /\ UNCHANGED outdata
       /\ hist' = [hist EXCEPT !.gate = "on"]
    \/ /\ hist.gate = "on"
       /\ ModTriggerOff("e1")
       /\ UNCHANGED outdata
       /\ hist' = [hist EXCEPT !.gate = "off"]
    \/ /\ ModRender("e1", hist.frames)
       /\ UNCHANGED outdata
       /\ hist' = [hist EXCEPT !.tick = 1 - @]

SpecSteady == InitSpecSteady /\ [][NextSteady]_vars

\* C35: after trigger_off in stage attack, decay or sustain, repeated
\* render calls with a fixed block length >= 1 (1 included) eventually
\* bring the envelope to stage off with active false; and after
\* trigger_on, repeated render calls eventually leave stage attack.
\* render being a function of the envelope and the block length, a call
\* that leaves the envelope as it was does so again every time it is
\* repeated: so every render call made in stage attack, and every render
\* call made after trigger_off before stage off, changes the envelope.
C35_RenderProgress ==
    [][hist'.tick # hist.tick
       => /\ mods["e1"].env_phase = "attack" => mods'["e1"] # mods["e1"]
          /\ (hist.gate = "off" /\ mods["e1"].env_phase # "off")
             => mods'["e1"] # mods["e1"]]_vars

(***************************************************************************)
(* SpecPass: one SynthADSR object, without targets, whose owner calls      *)
(* trigger_on, trigger_off and render(frames) in any order, with blocks of *)
(* 0 to MaxFrames frames, for envelopes whose durations are 0, 1 or 3      *)
(* samples (attack * sample_rate truncated; 0 is a duration of 0 seconds). *)
(*   hist.op       the last call: "new", "on", "off" or "render"           *)
(*   hist.frames   the frames of the last call when it was a render        *)
(*   hist.from     the stage before the last call                          *)
(***************************************************************************)
DurArgs == {0, 1, 3}

InitSpecPass ==
    /\ \E a \in DurArgs, d \in DurArgs, r \in DurArgs, su \in {0, Unit \div 2} :
           mods = [m \in {"e1"} |-> NewADSR(a, d, su, r, <<>>)]
    /\ nodes = <<>>
    /\ vobj = <<>>
    /\ voices = <<>>
    /\ keymap = <<>>
    /\ InitRest(0)
    /\ hist = [op |-> "new", frames |-> 0, from |-> "off"]

NotePass(op, frames) ==
    /\ UNCHANGED outdata
    /\ hist' = [op |-> op, frames |-> frames, from |-> mods["e1"].env_phase]

NextPass ==
    \/ ModTriggerOn("e1") /\ NotePass("on", 0)
    \/ ModTriggerOff("e1") /\ NotePass("off", 0)
    \/ \E frames \in 0..MaxFrames :
           ModRender("e1", frames) /\ NotePass("render", frames)

SpecPass == InitSpecPass /\ [][NextPass]_vars

RECURSIVE PassesOk(_, _)
\* every pass of the loop of render(frames) that starts at s consumes at
\* least one frame and no more than are left, and writes the positions it
\* consumes and no other: what was written before stays, and the written
\* positions are those before the loop index
PassesOk(s, frames) ==
    IF s.i >= frames THEN s.i = frames /\ Len(s.out) = frames
    ELSE LET s2 == ADSR_pass(s, frames)
         IN  /\ s2.i > s.i
             /\ s2.i <= frames
             /\ Len(s2.out) = s2.i
             /\ Prefix(s2.out, s.i) = s.out
             /\ PassesOk(s2, frames)

\* C36: one render(frames) call terminates for every frames >= 0, in
\* every stage and for every attack, decay and release duration >= 0 (0
\* included): each pass of its loop consumes at least one frame, each of
\* the frames positions of the block is written exactly once, and the
\* call returns a block of frames samples.
C36_RenderTerminates ==
    \A frames \in 0..MaxFrames :
        /\ PassesOk([m |-> mods["e1"], level |-> mods["e1"].env_level,
                     i |-> 0, out |-> <<>>], frames)
        /\ Len(ADSR_render(mods["e1"], frames).out) = frames

\* a render of several frames in the attack of an envelope whose attack
\* lasts 0 seconds has returned: it made one pass per frame
C36_Witness ==
    /\ hist.op = "render"
    /\ hist.frames >= 2
    /\ hist.from = "attack"
    /\ mods["e1"].attack = 0
    /\ mods["e1"].release = 0


(***************************************************************************)
(* SpecLocks: the engine of engine.py while it plays, with a Mixer among   *)
(* the objects the program registers.  The program's thread calls          *)
(* add_voice (of the voice v2 or of the Mixer), remove_voice, voice_on and *)
(* voice_off on the engine, and add_voice and remove_voice of the voice v1 *)
(* on the Mixer itself; the listener delivers events of the key z and the  *)
(* stream calls the callback; in every interleaving, the steps of a        *)
(* thread being the places where it takes a lock and the locked sections.  *)
(* v1 is a bare oscillator, v2 an empty voice.  The history is not used.   *)
(***************************************************************************)
InitSpecLocks ==
    /\ nodes = [n \in {"o1"} |-> PatchOsc]
    /\ mods = <<>>
    /\ vobj = [v \in {"v1", "v2", "mx"} |->
                  CASE v = "v1" -> NewVoice(<<"o1">>, <<>>)
                    [] v = "v2" -> NewVoice(<<>>, <<>>)
                    [] OTHER -> NewMixer(<<"v1">>, Unit)]
    /\ InitPlaying({"z"})
    /\ hist = <<>>

NextLocks ==
    \/ ApiEnter /\ Quiet
    \/ \E voice \in {"v2", "mx"}, id \in Ids, key \in KeysOf(keymap) \cup {None} :
           AddVoice(voice, id, key) /\ Quiet
    \/ \E id \in Ids : RemoveVoice(id) /\ Quiet
    \/ \E t \in {"api", "kb"}, id \in Ids, on \in BOOLEAN :
           LkVoiceCall(t, id, on) /\ Quiet
    \/ \E m \in {"add_voice", "remove_voice"} :
           /\ m = "add_voice" => ~InMixer("v1")
           /\ LkDirect("mx", "v1", m)
           /\ Quiet
    \/ \E l \in 1..MaxPlays, key \in KeysOf(keymap) : KbPress(l, key) /\ Quiet
    \/ \E l \in 1..MaxPlays, key \in KeysOf(keymap) : KbRelease(l, key) /\ Quiet
    \/ KbPressGet /\ Quiet
    \/ KbEnter /\ Quiet
    \/ \E t \in Threads : LkMxEnter(t) /\ Quiet
    \/ \E t \in Threads : LkMxBody(t) /\ Quiet
    \/ \E s \in 1..MaxPlays : CbEnter(s) /\ Quiet
    \/ LkCbNext /\ Quiet
    \/ CbRender /\ Quiet
    \/ CbExit /\ Quiet

SpecLocks == InitSpecLocks /\ [][NextLocks]_vars

(***************************************************************************)
(* Properties of the two locks (SpecLocks).                                *)
(***************************************************************************)
\* thread t is inside a "with self._lock:" of the engine
InEngine(t) ==
    CASE t = "api" -> api.pc = "in" \/ (api.pc \in {"mx_wait", "mx_in"}
                                        /\ api.m \in {"trigger_on", "trigger_off"})
      [] t = "kb" -> kb.pc \in {"press_in", "rel_in", "mx_wait", "mx_in"}
      [] OTHER -> cb.pc # "idle"

\* thread t stands before a lock another holder has
Blocked(t) ==
    \/ t = "kb" /\ kb.pc \in {"press_wait", "rel_wait"} /\ lock # "free"
    \/ Pos(t).pc = "mx_wait" /\ vobj[Pos(t).mx].lock # "free"

\* the holder of the lock thread t stands before
Holder(t) == IF Pos(t).pc = "mx_wait" THEN vobj[Pos(t).mx].lock ELSE lock

RECURSIVE Proceeds(_, _)
\* thread t is not blocked, or waits for a thread that is not, through at
\* most n threads: the threads that wait for one another form no cycle
Proceeds(t, n) ==
    \/ ~Blocked(t)
    \/ /\ n > 0
       /\ \E h \in Threads \ {t} : Holder(t) = h /\ Proceeds(h, n - 1)

\* C37: with Mixers among the engine's voices, in every interleaving of
\* the callback, voice_on / voice_off, add_voice / remove_voice and direct
\* Mixer.add_voice / remove_voice calls: a thread that holds the Mixer's
\* lock is inside the Mixer's method, where it takes no lock, so the two
\* locks are only ever nested engine first, Mixer second; the engine's
\* lock is held exactly by the thread inside one of the engine's locked
\* sections, and a thread that is back to idle holds no lock; and a thread
\* that waits for a lock waits, directly or through another waiting
\* thread, for a thread that runs, so none waits for ever.
C37_LockOrder ==
    \A t \in Threads :
        /\ vobj["mx"].lock \in Threads \cup {"free"}
        /\ vobj["mx"].lock = t <=> Pos(t).pc = "mx_in"
        /\ lock = t <=> InEngine(t)
        /\ Pos(t).pc = "idle" => (lock # t /\ vobj["mx"].lock # t)
        /\ Proceeds(t, Cardinality(Threads) - 1)

\* the callback holds both locks while the listener waits for the
\* engine's and the program's own call waits for the Mixer's
C37_Witness ==
    /\ lock = "cb"
    /\ vobj["mx"].lock = "cb"
    /\ cb.m = "render"
    /\ kb.pc = "press_wait"
    /\ api.pc = "mx_wait"
    /\ api.m = "remove_voice"

====
